---- MODULE Spec2Model ----
(***************************************************************************)
(* Model of scripts/fetch-jobs.js (the variant with enrichment, dedup and  *)
(* rolling-window merge, lines 577-1222): the merge/retention engine, the  *)
(* role filter and the orchestration in main; and of the viewer, app.js    *)
(* with the networkFirst strategy of service-worker.js.                    *)
(*                                                                         *)
(* Times are milliseconds counted from 2024-01-01T00:00:00Z, so that they  *)
(* fit TLC's integers; one day is DayMs milliseconds as in the source.     *)
(***************************************************************************)
EXTENDS Integers, Sequences, FiniteSets, TLC

VARIABLES
    existingJobs,   \* mergeJobs: its first argument
    freshJobs,      \* mergeJobs: its second argument
    mergeNow,       \* the value Date.now() returns during the calls
    merged,         \* mergeJobs(existingJobs, freshJobs), once computed
    mergedAgain,    \* mergeJobs(merged, freshJobs), once computed
    mergePc,        \* "start", "merged" (merged is computed), "remerged"
    filterTitle,    \* matchesRoleFilter: its argument title
    filterCompany,  \* matchesRoleFilter: its argument company
    filterResult,   \* what matchesRoleFilter returned
    filterPc,       \* "start", "done" (filterResult is computed)
    clock,          \* what Date.now() returns
    artifact,       \* data/jobs.json
    salaryCacheFile,\* data/salary-cache.json
    pc,             \* "idle": no process; "exited": a run has just ended
    upstream,       \* per source, how its upstream answered in this run
    adapterJobs,    \* the arrays the four adapters resolved to in this run
    easyAllDeduped, \* main: easyAllDeduped
    easyAllSalaryFiltered, \* main: easyAllSalaryFiltered
    exitCode,       \* the exit code of the run that has just ended
    salaryJobs,     \* filterBySalary: its argument jobs
    salaryCache,    \* filterBySalary: its argument salaryCache, as passed
    salaryNow,      \* filterBySalary: what Date.now() returns during the call
    savedCache,     \* what saveSalaryCache wrote
    passed,         \* what filterBySalary returned
    salaryPc,       \* "start", "done" (passed is computed)
    jobsFile,       \* data/jobs.json as a reader finds it: [exists, text]
    jobsFileBefore, \* data/jobs.json when the run started
    output,         \* main: the object output
    writePc,        \* main, from line 1208: "mkdir", "open", "write", "exited"
    writeExit,      \* the exit code of that run (-1 while it runs)
    joinPc,                 \* where main is, in the run followed through its join
    promise,                \* state of the promise of each adapter
    settled,                \* what each adapter resolved to
    joinUpstream,           \* how the upstream of each adapter answered
    joinValues,             \* the array await Promise.all gave main
    joinExisting,           \* existing, as loadExistingJobs returned it
    joinDeduped,            \* easyAllDeduped of that run
    joinFiltered,           \* easyAllSalaryFiltered of that run
    joinArtifact,           \* data/jobs.json
    joinCacheFile,          \* data/salary-cache.json
    touched,                \* the stages main has performed so far
    joinExit,               \* exit code of that run
    viewPc,                 \* the page: "closed", "idle", "refreshing" (isLoading)
    online,                 \* the network is available
    swActive,               \* the service worker controls the fetches of the page
    swRoles,                \* DATA_CACHE: the response cached for the roles URL
    swJobsJson,             \* DATA_CACHE: the responses cached for data/jobs.json?t=...
    storedCache,            \* localStorage job_radar_cache
    storedSeen,             \* localStorage job_radar_seen_ids
    list,                   \* per section, the cards in its list element
    shown,                  \* per section, the state showState set last
    previousSeenIds,        \* refresh: previousSeenIds
    newCache,               \* refresh: newCache
    allJobIds,              \* refresh: allJobIds
    done,                   \* refresh: which of the two promises have settled
    renderedSections,       \* the sections this refresh has rendered from a fetch
    fetchT,                 \* the t of the data/jobs.json request of this refresh
    viewClock,              \* what Date.now() returns in the page
    renderedEarlier,        \* ids rendered from a fetch by the refreshes that have ended
    failed,                 \* refresh: the branches whose fetch rejected or was not ok
    lkJobs,                 \* filterBySalary followed step by step: its argument jobs
    lkCache0,               \* the cache as loadSalaryCache returned it
    lkCache,                \* the cache object, as the lookups leave it
    lkNext,                 \* i of the loop over the batches
    inFlight,               \* the companies whose AmbitionBox request is not answered
    requested,              \* the slugs requested from AmbitionBox, in order
    stored,                 \* how often the cache entry of each slug was written
    lkSaved,                \* what saveSalaryCache wrote
    lkPassed,               \* what filterBySalary returned
    lkPc,                   \* "start", "loop" (the batches), "done"; "called"
    lkCompany,              \* the argument of the call of getSalaryData that returned last
    lkFetched,              \* what the request of that call resolved to
    pgAdapter,              \* the paging adapter that runs: "linkedin" or "linkedin_easy_all"
    pgQuery,                \* the search query it is at (1..5; fetchLinkedIn has one)
    pgStart,                \* start of the loop over the pages
    pgSeen,                 \* the ids pushed to allJobs so far
    pgPages,                \* the pages requested for this query
    pgLast,                 \* what the last request of this query returned
    pgLastAdded,            \* how many ids of that page were not in allJobs before
    pgPc,                   \* "request", "queryEnd", "done"
    wkPc,                   \* the service worker: "none", "installed", "active"; "idle"
    wkKeys,                 \* caches.keys(): the names of the caches that exist
    wkShell,                \* SHELL_CACHE: the responses it holds, by URL
    wkData,                 \* DATA_CACHE: the responses it holds, by URL
    wkClock,                \* the requests for data/jobs.json so far (their t)
    wkLastOk,               \* the last ok network response of each network-first resource
    wkRequest,              \* the URL of the last fetch event
    wkNet,                  \* what the network did in that event
    wkResponse              \* what the worker responded with

mergeVars == <<existingJobs, freshJobs, mergeNow, merged, mergedAgain, mergePc>>
filterVars == <<filterTitle, filterCompany, filterResult, filterPc>>

runVars == <<clock, artifact, salaryCacheFile, pc, upstream, adapterJobs,
             easyAllDeduped, easyAllSalaryFiltered, exitCode>>

salaryVars == <<salaryJobs, salaryCache, salaryNow, savedCache, passed, salaryPc>>

writeVars == <<jobsFile, jobsFileBefore, output, writePc, writeExit>>

joinVars == <<joinPc, promise, settled, joinUpstream, joinValues, joinExisting,
             joinDeduped, joinFiltered, joinArtifact, joinCacheFile, touched,
             joinExit>>

viewerVars == <<viewPc, online, swActive, swRoles, swJobsJson, storedCache, storedSeen,
               list, shown, previousSeenIds, newCache, allJobIds, done,
               renderedSections, fetchT, viewClock, renderedEarlier, failed>>

workerVars == <<wkPc, wkKeys, wkShell, wkData, wkClock, wkLastOk, wkRequest, wkNet,
               wkResponse>>

pagingVars == <<pgAdapter, pgQuery, pgStart, pgSeen, pgPages, pgLast, pgLastAdded, pgPc>>

lookupVars == <<lkJobs, lkCache0, lkCache, lkNext, inFlight, requested, stored,
               lkSaved, lkPassed, lkPc, lkCompany, lkFetched>>

vars == <<mergeVars, filterVars, runVars, salaryVars, writeVars, joinVars, viewerVars, lookupVars, pagingVars, workerVars>>

\* ------------------------------------------------------------------ values

\* getTime() of an Invalid Date. Every real time of the model is >= 0 and every
\* difference of two real times is a multiple of DayMs, so -1 is free.
NaN == -1

DayMs == 86400000

ROLLING_WINDOW_DAYS == 7

\* Date strings of the model and the day each parses to (new Date(s).getTime()
\* is Day * DayMs); any other string, and undefined, give an Invalid Date.
DateTable ==
    [s \in {"2024-01-03", "2024-01-04", "2024-01-05", "2024-01-09",
            "2024-01-10", "2024-01-11", "2024-01-12", "2024-01-13",
            "2024-01-14"} |->
       CASE s = "2024-01-03" -> 2
         [] s = "2024-01-04" -> 3
         [] s = "2024-01-05" -> 4
         [] s = "2024-01-09" -> 8
         [] s = "2024-01-10" -> 9
         [] s = "2024-01-11" -> 10
         [] s = "2024-01-12" -> 11
         [] s = "2024-01-13" -> 12
         [] s = "2024-01-14" -> 13]

\* new Date(s).getTime()
DateGetTime(s) ==
    IF s \in DOMAIN DateTable THEN DateTable[s] * DayMs ELSE NaN

\* a - b on JavaScript numbers
NumSub(a, b) == IF a = NaN \/ b = NaN THEN NaN ELSE a - b

\* a >= b on JavaScript numbers: false when either is NaN
NumGe(a, b) == a # NaN /\ b # NaN /\ a >= b

\* String(id): an id is a JSON number, a JSON string or undefined; [kind, text]
\* holds its type and its decimal or literal text ("undefined" for undefined).
StringOf(id) == id.text

\* ------------------------------------------------------------------ strings
\* The character U+2014, which the source writes as a literal.
EmDash == "<em dash>"

\* The characters of a string, one string of length one each: the string
\* operations of the source work on them.
Chars(str) ==
    IF str = EmDash THEN <<EmDash>>
    ELSE [i \in 1..Len(str) |-> SubSeq(str, i, i)]

UpperCaseLetters ==
    <<"A", "B", "C", "D", "E", "F", "G", "H", "I", "J", "K", "L", "M",
      "N", "O", "P", "Q", "R", "S", "T", "U", "V", "W", "X", "Y", "Z">>

LowerCaseLetters ==
    <<"a", "b", "c", "d", "e", "f", "g", "h", "i", "j", "k", "l", "m",
      "n", "o", "p", "q", "r", "s", "t", "u", "v", "w", "x", "y", "z">>

Digits == {"0", "1", "2", "3", "4", "5", "6", "7", "8", "9"}

LowerChar(c) ==
    IF \E i \in 1..26 : UpperCaseLetters[i] = c
    THEN LowerCaseLetters[CHOOSE i \in 1..26 : UpperCaseLetters[i] = c]
    ELSE c

\* s.toLowerCase()
ToLowerCase(cs) == [i \in 1..Len(cs) |-> LowerChar(cs[i])]

\* \s
IsSpace(c) == c \in {" ", "\t", "\n"}

\* \w
IsWordChar(c) ==
    \/ c \in Digits
    \/ c = "_"
    \/ \E i \in 1..26 : UpperCaseLetters[i] = c \/ LowerCaseLetters[i] = c

\* s.trim()
RECURSIVE TrimStart(_)
TrimStart(cs) ==
    IF cs # <<>> /\ IsSpace(Head(cs)) THEN TrimStart(Tail(cs)) ELSE cs

RECURSIVE TrimEnd(_)
TrimEnd(cs) ==
    IF cs # <<>> /\ IsSpace(cs[Len(cs)]) THEN TrimEnd(SubSeq(cs, 1, Len(cs) - 1)) ELSE cs

Trim(cs) == TrimEnd(TrimStart(cs))

\* The literal lit is in cs from position i on.
LiteralAt(cs, i, lit) ==
    /\ i + Len(lit) - 1 <= Len(cs)
    /\ \A k \in 1..Len(lit) : cs[i + k - 1] = lit[k]

\* s.includes(lit)
Includes(cs, lit) == \E i \in 1..(Len(cs) + 1) : LiteralAt(cs, i, lit)

\* \b between positions i - 1 and i
WordBoundaryAt(cs, i) ==
    (i > 1 /\ IsWordChar(cs[i - 1])) # (i <= Len(cs) /\ IsWordChar(cs[i]))

\* A regular expression is a sequence of atoms: "alt" is one of the literals of
\* alts, "ws" is \s+, "b" is \b. MatchEnds is the set of positions at which a
\* match of the atoms k.. that starts at position i can end.
RECURSIVE MatchEnds(_, _, _, _)
MatchEnds(cs, i, re, k) ==
    IF k > Len(re) THEN {i}
    ELSE CASE re[k].kind = "alt" ->
                UNION {MatchEnds(cs, i + Len(Chars(lit)), re, k + 1) :
                         lit \in {l \in re[k].alts : LiteralAt(cs, i, Chars(l))}}
           [] re[k].kind = "ws" ->
                UNION {MatchEnds(cs, j, re, k + 1) :
                         j \in {j \in (i + 1)..(Len(cs) + 1) :
                                  \A m \in i..(j - 1) : IsSpace(cs[m])}}
           [] re[k].kind = "b" ->
                IF WordBoundaryAt(cs, i) THEN MatchEnds(cs, i, re, k + 1) ELSE {}

\* re.test(s)
RegexTest(re, cs) == \E i \in 1..(Len(cs) + 1) : MatchEnds(cs, i, re, 1) # {}

\* re.test(s) with the flag i; the literals of the patterns are lower case.
RegexTestIgnoreCase(re, cs) == RegexTest(re, ToLowerCase(cs))

Alt(S) == [kind |-> "alt", alts |-> S]
Ws == [kind |-> "ws", alts |-> {}]
B == [kind |-> "b", alts |-> {}]

\* ------------------------------------------------------------------ matchesRoleFilter
\* /\bsmts\b/
ReSmts == <<B, Alt({"smts"}), B>>

\* /senior\s+software\s+engineer/i
ReSeniorSoftwareEngineer ==
    <<Alt({"senior"}), Ws, Alt({"software"}), Ws, Alt({"engineer"})>>

\* /\b(staff|principal|lead|manager|director)\b/i
ReLinkedinExcluded ==
    <<B, Alt({"staff", "principal", "lead", "manager", "director"}), B>>

\* /\b(senior|sr\.?)\s+software\s+engineer/i
ReLinkedinSenior ==
    <<B, Alt({"senior", "sr.", "sr"}), Ws, Alt({"software"}), Ws, Alt({"engineer"})>>

\* Mutant of the role filter: the linkedin class takes Staff for a senior level,
\* as the Easy Apply filter does.
matchesRoleFilterStaffToo(title, company) ==
    LET t == ToLowerCase(Chars(title)) IN
    CASE company = "salesforce" ->
           RegexTest(ReSmts, t) \/ Includes(t, Chars("senior member of technical staff"))
      [] company = "booking" ->
           RegexTestIgnoreCase(ReSeniorSoftwareEngineer, Chars(title))
      [] company = "linkedin" ->
           IF RegexTestIgnoreCase(
                <<B, Alt({"principal", "lead", "manager", "director"}), B>>, Chars(title))
           THEN FALSE
           ELSE RegexTestIgnoreCase(
                  <<B, Alt({"senior", "sr.", "sr", "staff"}), Ws,
                    Alt({"software"}), Ws, Alt({"engineer"})>>, Chars(title))
      [] OTHER -> FALSE

matchesRoleFilter(title, company) ==
    LET t == ToLowerCase(Chars(title)) IN
    CASE company = "salesforce" ->
           RegexTest(ReSmts, t) \/ Includes(t, Chars("senior member of technical staff"))
      [] company = "booking" ->
           RegexTestIgnoreCase(ReSeniorSoftwareEngineer, Chars(title))
      [] company = "linkedin" ->
           IF RegexTestIgnoreCase(ReLinkedinExcluded, Chars(title))
           THEN FALSE
           ELSE RegexTestIgnoreCase(ReLinkedinSenior, Chars(title))
      [] OTHER -> FALSE

\* ------------------------------------------------------------------ salary lookup
\* null, where a number is expected (the LPA figures of the model are >= 0).
Null == -2

\* A job property that is absent (undefined) in the JavaScript object.
Undefined == "<undefined>"

MIN_SALARY_LPA == 50

SALARY_CACHE_TTL_DAYS == 14

\* The curated table, in the order of its keys.
LEVELS_FYI_INDIA_TC ==
    <<<<"atlassian", 198>>, <<"uber", 155>>, <<"rubrik", 151>>, <<"stripe", 137>>,
      <<"apple", 137>>, <<"snowflake", 120>>, <<"palantir", 120>>,
      <<"microsoft", 110>>, <<"linkedin", 110>>, <<"datadog", 110>>,
      <<"databricks", 103>>, <<"hashicorp", 100>>, <<"gitlab", 100>>,
      <<"confluent", 95>>, <<"salesforce", 91>>, <<"intuit", 91>>,
      <<"palo alto networks", 90>>, <<"cloudflare", 90>>, <<"elastic", 90>>,
      <<"flipkart", 86>>, <<"nutanix", 85>>, <<"zscaler", 85>>, <<"new relic", 85>>,
      <<"vmware", 80>>, <<"broadcom", 80>>, <<"netapp", 80>>,
      <<"arista networks", 80>>, <<"razorpay", 80>>, <<"akamai", 75>>,
      <<"phonepe", 75>>, <<"google", 73>>, <<"oracle", 70>>, <<"cisco", 70>>,
      <<"f5 networks", 70>>, <<"juniper networks", 70>>, <<"adobe", 70>>,
      <<"amazon", 68>>, <<"aws", 68>>, <<"booking.com", 66>>, <<"fortinet", 65>>,
      <<"servicenow", 65>>, <<"goldman sachs", 64>>, <<"walmart", 62>>,
      <<"morgan stanley", 54>>, <<"paypal", 51>>, <<"cred", 50>>, <<"visa", 40>>,
      <<"groww", 40>>, <<"paytm", 35>>, <<"zerodha", 35>>, <<"mastercard", 33>>,
      <<"bharatpe", 32>>, <<"hdfc bank", 28>>, <<"bajaj finance", 28>>,
      <<"upstox", 28>>, <<"icici bank", 25>>, <<"genpact", 25>>, <<"hdfc", 24>>,
      <<"tcs", 22>>, <<"infosys", 22>>, <<"wipro", 20>>, <<"cognizant", 22>>,
      <<"capgemini", 20>>, <<"hcl", 20>>, <<"yes bank", 18>>, <<"concentrix", 18>>,
      <<"federal bank", 16>>, <<"bandhan bank", 15>>, <<"epam systems", 28>>,
      <<"epam", 28>>, <<"cgi", 16>>, <<"freshworks", 26>>, <<"agoda", 59>>,
      <<"roku", 90>>, <<"coinbase", 69>>, <<"rippling", 60>>, <<"doordash", 64>>,
      <<"commonwealth bank", 38>>, <<"uplers", 22>>>>

\* The first key of the table that contains c or is contained in c.
RECURSIVE LevelsFyiScan(_, _)
LevelsFyiScan(c, i) ==
    IF i > Len(LEVELS_FYI_INDIA_TC) THEN Null
    ELSE LET key == Chars(LEVELS_FYI_INDIA_TC[i][1]) IN
         IF Includes(c, key) \/ Includes(key, c)
         THEN LEVELS_FYI_INDIA_TC[i][2]
         ELSE LevelsFyiScan(c, i + 1)

lookupLevelsFyi(companyName) ==
    LET c == Trim(ToLowerCase(Chars(companyName))) IN
    IF \E i \in 1..Len(LEVELS_FYI_INDIA_TC) : Chars(LEVELS_FYI_INDIA_TC[i][1]) = c
    THEN LEVELS_FYI_INDIA_TC[
           CHOOSE i \in 1..Len(LEVELS_FYI_INDIA_TC) : Chars(LEVELS_FYI_INDIA_TC[i][1]) = c][2]
    ELSE LevelsFyiScan(c, 1)

\* The company names of the model: what an Easy Apply job can have as department.
CompanyNames ==
    {"Agoda", "Acme Corp", "LinkedIn", "Freshworks", "", EmDash,
     "CRED", "Visa", "Zed Labs",
     "ACME Corp", "Quux", "Nimbus", "Orbit", "Pylon"}

\* lookupLevelsFyi on the company names of the model.
LevelsFyi == [c \in CompanyNames |-> lookupLevelsFyi(c)]

\* s.replace(/lit/g, by)
RECURSIVE ReplaceAll(_, _, _)
ReplaceAll(cs, lit, by) ==
    IF cs = <<>> THEN <<>>
    ELSE IF LiteralAt(cs, 1, lit)
         THEN by \o ReplaceAll(SubSeq(cs, Len(lit) + 1, Len(cs)), lit, by)
         ELSE <<Head(cs)>> \o ReplaceAll(Tail(cs), lit, by)

IsSlugChar(c) ==
    c \in Digits \/ \E i \in 1..26 : LowerCaseLetters[i] = c

\* s.replace(/[^a-z0-9]+/g, '-')
RECURSIVE DashRuns(_)
DashRuns(cs) ==
    IF cs = <<>> THEN <<>>
    ELSE IF IsSlugChar(Head(cs)) THEN <<Head(cs)>> \o DashRuns(Tail(cs))
         ELSE IF Len(cs) > 1 /\ ~IsSlugChar(cs[2]) THEN DashRuns(Tail(cs))
              ELSE <<"-">> \o DashRuns(Tail(cs))

\* s.replace(/^-|-$/g, '')
StripDashes(cs) ==
    LET a == IF cs # <<>> /\ Head(cs) = "-" THEN Tail(cs) ELSE cs IN
    IF a # <<>> /\ a[Len(a)] = "-" THEN SubSeq(a, 1, Len(a) - 1) ELSE a

\* The slug is a string of its own; the model keeps it as its characters.
companyToSlug(name) ==
    StripDashes(DashRuns(
        ReplaceAll(ReplaceAll(ToLowerCase(Chars(name)), Chars("&amp;"), Chars("and")),
                   Chars("&"), Chars("and"))))

\* companyToSlug on the company names of the model.
Slug == [c \in CompanyNames |-> companyToSlug(c)]

\* A cache is a function from the slugs it holds to the entries
\* [minLPA, maxLPA, source, ts]; cache[slug] is undefined for any other slug.
CacheHas(cache, slug) == slug \in DOMAIN cache

CachePut(cache, slug, entry) ==
    [k \in DOMAIN cache \cup {slug} |-> IF k = slug THEN entry ELSE cache[k]]

\* What fetchSalaryFromAmbitionBox can resolve to: a range read from the page,
\* or nulls when the page has no range or the request failed.
AmbitionBoxResults ==
    {[minLPA |-> 40, maxLPA |-> 60], [minLPA |-> 35, maxLPA |-> 50],
     [minLPA |-> 20, maxLPA |-> 30], [minLPA |-> Null, maxLPA |-> Null]}

\* Mutant of the write: nothing is stored when the request found no range.
StoreLookupValuesOnly(cache, slug, now, fetched) ==
    IF fetched.maxLPA = Null THEN cache
    ELSE CachePut(cache, slug,
                  [minLPA |-> fetched.minLPA, maxLPA |-> fetched.maxLPA,
                   source |-> "ambitionbox", ts |-> now])

\* cache[slug] = { minLPA: data.minLPA, maxLPA: data.maxLPA,
\*                 source: 'ambitionbox', ts: now }
StoreLookup(cache, slug, now, fetched) ==
    CachePut(cache, slug,
             [minLPA |-> fetched.minLPA, maxLPA |-> fetched.maxLPA,
              source |-> "ambitionbox", ts |-> now])

\* Mutant of getSalaryData: an entry that is exactly 14 days old still counts
\* as fresh.
getSalaryDataTtlInclusive(companyName, cache, now, fetched) ==
    IF LevelsFyi[companyName] # Null
    THEN [cache |-> cache, looked |-> FALSE]
    ELSE LET slug == Slug[companyName] IN
         IF CacheHas(cache, slug) /\ cache[slug].ts # 0
              /\ now - cache[slug].ts <= SALARY_CACHE_TTL_DAYS * DayMs
         THEN [cache |-> cache, looked |-> FALSE]
         ELSE [cache |-> StoreLookup(cache, slug, now, fetched), looked |-> TRUE]

\* getSalaryData, given what the AmbitionBox request resolves to if it is made:
\* the cache as it is left, and whether the request was made.
getSalaryData(companyName, cache, now, fetched) ==
    IF LevelsFyi[companyName] # Null
    THEN [cache |-> cache, looked |-> FALSE]
    ELSE LET slug == Slug[companyName] IN
         IF CacheHas(cache, slug) /\ cache[slug].ts # 0
              /\ now - cache[slug].ts < SALARY_CACHE_TTL_DAYS * DayMs
         THEN [cache |-> cache, looked |-> FALSE]
         ELSE [cache |-> StoreLookup(cache, slug, now, fetched), looked |-> TRUE]

getSalaryDataSync(companyName, cache) ==
    LET levelsTc == LevelsFyi[companyName] IN
    IF levelsTc # Null
    THEN [maxLPA |-> levelsTc, source |-> "levels.fyi"]
    ELSE LET slug == Slug[companyName] IN
         IF CacheHas(cache, slug) /\ cache[slug].maxLPA # Null
         THEN [maxLPA |-> cache[slug].maxLPA, source |-> "ambitionbox"]
         ELSE [maxLPA |-> Null, source |-> Undefined]

\* The departments of the jobs, without repetition, in order of first occurrence
\* (the Set uniqueCompanies); an empty department is left out.
RECURSIVE UniqueCompanies(_, _)
UniqueCompanies(jobs, acc) ==
    IF jobs = <<>> THEN acc
    ELSE UniqueCompanies(Tail(jobs),
           IF Head(jobs).department \in {"", Undefined}
                \/ \E i \in 1..Len(acc) : acc[i] = Head(jobs).department
           THEN acc ELSE Append(acc, Head(jobs).department))

SelectSeqBy(s, Keep(_)) ==
    LET F[i \in 0..Len(s)] ==
          IF i = 0 THEN <<>>
          ELSE IF Keep(s[i]) THEN Append(F[i - 1], s[i]) ELSE F[i - 1]
    IN  F[Len(s)]

needAmbitionBox(jobs) ==
    LET NotCurated(c) == LevelsFyi[c] = Null IN
    SelectSeqBy(UniqueCompanies(jobs, <<>>), NotCurated)

\* The lookups of filterBySalary: getSalaryData for each company of the list, on
\* the one cache object; results[i] is what the request for companies[i]
\* resolves to.
RECURSIVE LookupAll(_, _, _, _)
LookupAll(companies, cache, now, results) ==
    IF companies = <<>> THEN cache
    ELSE LookupAll(Tail(companies),
                   getSalaryData(Head(companies), cache, now, Head(results)).cache,
                   now, Tail(results))

\* salaryData.maxLPA + ' LPA': the number and the text that follows it. A job
\* without salaryRange has <<>> there.
LpaText(maxLPA) == <<maxLPA, " LPA">>

\* Mutant of SalaryPass: a job without salary data is dropped.
SalaryPassFailClosed(job, cache) ==
    LET company == IF job.department = Undefined THEN "" ELSE job.department
        salaryData == getSalaryDataSync(company, cache)
    IN  IF salaryData.maxLPA = Null THEN <<>>
        ELSE IF salaryData.maxLPA >= MIN_SALARY_LPA
             THEN <<[job EXCEPT !.salaryRange = LpaText(salaryData.maxLPA),
                                !.salarySource = salaryData.source]>>
             ELSE <<>>

\* Mutant of SalaryPass: the threshold itself is rejected.
SalaryPassStrict(job, cache) ==
    LET company == IF job.department = Undefined THEN "" ELSE job.department
        salaryData == getSalaryDataSync(company, cache)
    IN  IF salaryData.maxLPA = Null THEN <<job>>
        ELSE IF salaryData.maxLPA > MIN_SALARY_LPA
             THEN <<[job EXCEPT !.salaryRange = LpaText(salaryData.maxLPA),
                                !.salarySource = salaryData.source]>>
             ELSE <<>>

\* The second pass of filterBySalary over one job: the job as it is pushed to
\* passed (a list of one), or nothing when the job is rejected.
SalaryPass(job, cache) ==
    LET company == IF job.department = Undefined THEN "" ELSE job.department
        salaryData == getSalaryDataSync(company, cache)
    IN  IF salaryData.maxLPA = Null THEN <<job>>
        ELSE IF salaryData.maxLPA >= MIN_SALARY_LPA
             THEN <<[job EXCEPT !.salaryRange = LpaText(salaryData.maxLPA),
                                !.salarySource = salaryData.source]>>
             ELSE <<>>

RECURSIVE PassedJobs(_, _)
PassedJobs(jobs, cache) ==
    IF jobs = <<>> THEN <<>>
    ELSE SalaryPass(Head(jobs), cache) \o PassedJobs(Tail(jobs), cache)

\* ------------------------------------------------------------------ Easy Apply filters
EXTERNAL_APPLY_COMPANIES ==
    {"microsoft", "google", "amazon", "apple", "meta", "netflix", "uber", "airbnb",
     "stripe", "spotify", "salesforce", "oracle", "ibm", "intel", "nvidia", "amd",
     "qualcomm", "adobe", "sap", "vmware", "dell", "cisco", "hp", "hpe",
     "goldman sachs", "jpmorgan", "morgan stanley", "barclays", "citi", "deloitte",
     "mckinsey", "bcg", "accenture", "kpmg", "ey", "pwc", "flipkart", "walmart",
     "paypal", "visa", "mastercard", "linkedin", "booking.com", "booking", "tcs",
     "infosys", "wipro", "hcl", "cognizant", "capgemini", "thoughtworks", "atlassian",
     "databricks", "snowflake", "confluent", "servicenow", "workday", "intuit",
     "autodesk", "splunk", "swiggy", "zomato", "phonepe", "paytm", "cred", "meesho",
     "samsung", "sony", "siemens", "bosch"}

isExternalApplyCompany(companyName) ==
    IF companyName \in {"", Undefined} THEN FALSE
    ELSE LET c == Trim(ToLowerCase(Chars(companyName))) IN
         \E known \in EXTERNAL_APPLY_COMPANIES :
             Chars(known) = c \/ Includes(c, Chars(known)) \/ Includes(Chars(known), c)

ReEasyFrontend ==
    <<B, Alt({"frontend", "front-end", "front end", "ui", "ux", "react", "angular",
              "ios", "android", "mobile"}), B>>

ReEasySecurity ==
    <<B, Alt({"security", "cybersec", "infosec", "penetration", "threat"}), B>>

ReEasyMl ==
    <<B, Alt({"machine learning", "ml", "data scientist", "ai", "nlp",
              "computer vision"}), B>>

ReEasyNonEngineering ==
    <<B, Alt({"manager", "director", "recruiter", "analyst", "consultant", "intern",
              "qa", "test", "sdet"}), B>>

ReEasyHardware == <<B, Alt({"network", "hardware", "firmware", "embedded"}), B>>

ReEasySenior == <<B, Alt({"senior", "sr.", "sr", "lead", "staff", "principal"}), B>>

ReEasyBackend ==
    <<B, Alt({"software", "backend", "back-end", "back end", "full-stack",
              "full stack", "fullstack", "platform", "systems", "cloud", "devops",
              "sre", "infrastructure", "distributed"}), B>>

ReEasyEngineer == <<B, Alt({"engineer", "developer", "architect"}), B>>

\* Mutant of the Easy Apply filter: a title with all three inclusion patterns
\* is accepted before the exclusions are looked at.
matchesEasyApplyFilterInclusionFirst(title) ==
    LET t == ToLowerCase(Chars(title)) IN
    IF RegexTest(ReEasySenior, t) /\ RegexTest(ReEasyBackend, t) /\ RegexTest(ReEasyEngineer, t)
    THEN TRUE
    ELSE FALSE

matchesEasyApplyFilter(title) ==
    LET t == ToLowerCase(Chars(title)) IN
    IF RegexTest(ReEasyFrontend, t) THEN FALSE
    ELSE IF RegexTest(ReEasySecurity, t) THEN FALSE
    ELSE IF RegexTest(ReEasyMl, t) THEN FALSE
    ELSE IF RegexTest(ReEasyNonEngineering, t) THEN FALSE
    ELSE IF RegexTest(ReEasyHardware, t) THEN FALSE
    ELSE IF ~RegexTest(ReEasySenior, t) THEN FALSE
    ELSE RegexTest(ReEasyBackend, t) /\ RegexTest(ReEasyEngineer, t)

\* ------------------------------------------------------------------ Array.prototype.sort
\* Mutant of the comparator: the operands swapped (ascending order).
ByPostedDateAsc(a, b) ==
    NumSub(DateGetTime(a.postedDate), DateGetTime(b.postedDate))

\* The comparator of mergeJobs: new Date(b.postedDate) - new Date(a.postedDate)
ByPostedDateDesc(a, b) ==
    NumSub(DateGetTime(b.postedDate), DateGetTime(a.postedDate))

\* sort calls the comparator and reads a NaN result as +0.
SortCompare(a, b) ==
    LET v == ByPostedDateDesc(a, b) IN IF v = NaN THEN 0 ELSE v

Reverse(s) == [i \in 1..Len(s) |-> s[Len(s) + 1 - i]]

\* Length of the run that starts the array: s[1..2] extended while the order of
\* neighbours stays (strictly descending, or not descending).
RECURSIVE RunLength(_, _, _)
RunLength(s, idx, isDescending) ==
    IF idx > Len(s) THEN idx - 1
    ELSE LET order == SortCompare(s[idx], s[idx - 1]) IN
         IF isDescending
         THEN IF order >= 0 THEN idx - 1 ELSE RunLength(s, idx + 1, isDescending)
         ELSE IF order < 0 THEN idx - 1 ELSE RunLength(s, idx + 1, isDescending)

CountAndMakeRun(s) ==
    LET isDescending == SortCompare(s[2], s[1]) < 0
        len == RunLength(s, 3, isDescending)
    IN  [len |-> len,
         arr |-> IF isDescending
                 THEN Reverse(SubSeq(s, 1, len)) \o SubSeq(s, len + 1, Len(s))
                 ELSE s]

\* Where the pivot goes in the sorted prefix s[left..right-1].
RECURSIVE BinarySearch(_, _, _, _)
BinarySearch(s, pivot, left, right) ==
    IF left >= right THEN left
    ELSE LET mid == left + ((right - left) \div 2) IN
         IF SortCompare(pivot, s[mid]) < 0
         THEN BinarySearch(s, pivot, left, mid)
         ELSE BinarySearch(s, pivot, mid + 1, right)

RECURSIVE BinaryInsertionSort(_, _)
BinaryInsertionSort(s, start) ==
    IF start > Len(s) THEN s
    ELSE LET pivot == s[start]
             left  == BinarySearch(s, pivot, 1, start)
             next  == SubSeq(s, 1, left - 1) \o <<pivot>>
                        \o SubSeq(s, left, start - 1)
                        \o SubSeq(s, start + 1, Len(s))
         IN  BinaryInsertionSort(next, start + 1)

\* jobs.sort((a, b) => new Date(b.postedDate) - new Date(a.postedDate))
\* for an array shorter than 64: one run, then binary insertion.
SortByPostedDate(s) ==
    IF Len(s) < 2 THEN s
    ELSE LET run == CountAndMakeRun(s) IN BinaryInsertionSort(run.arr, run.len + 1)

\* ------------------------------------------------------------------ Map
\* A Map is the sequence of its [key, value] entries in insertion order.
MapHas(m, k) == \E i \in 1..Len(m) : m[i].key = k

MapSet(m, k, v) ==
    IF MapHas(m, k)
    THEN [i \in 1..Len(m) |-> IF m[i].key = k THEN [key |-> k, value |-> v] ELSE m[i]]
    ELSE Append(m, [key |-> k, value |-> v])

MapValues(m) == [i \in 1..Len(m) |-> m[i].value]

\* ------------------------------------------------------------------ mergeJobs
\* Mutant of the retention test: written as "not older than the cutoff", which
\* an Invalid Date passes.
InWindowUnlessOlder(job, now) ==
    LET posted == DateGetTime(job.postedDate) IN
    posted = NaN \/ posted >= now - ROLLING_WINDOW_DAYS * DayMs

\* The retention test of the first loop: posted >= cutoff.
InWindow(job, now) ==
    NumGe(DateGetTime(job.postedDate), now - ROLLING_WINDOW_DAYS * DayMs)

RECURSIVE SeedExisting(_, _, _)
SeedExisting(byId, jobs, now) ==
    IF jobs = <<>> THEN byId
    ELSE SeedExisting(
           IF InWindow(Head(jobs), now)
           THEN MapSet(byId, StringOf(Head(jobs).id), Head(jobs))
           ELSE byId,
           Tail(jobs), now)

\* Mutant of the second loop: fresh jobs are appended, not set by key.
OverlayFreshAppend(byId, jobs) ==
    byId \o [i \in 1..Len(jobs) |-> [key |-> StringOf(jobs[i].id), value |-> jobs[i]]]

\* Mutant of the second loop: a key that is already present keeps its job.
RECURSIVE OverlayFreshKeepFirst(_, _)
OverlayFreshKeepFirst(byId, jobs) ==
    IF jobs = <<>> THEN byId
    ELSE OverlayFreshKeepFirst(
           IF MapHas(byId, StringOf(Head(jobs).id)) THEN byId
           ELSE MapSet(byId, StringOf(Head(jobs).id), Head(jobs)),
           Tail(jobs))

\* The second loop: byId.set(String(job.id), job) for every fresh job.
RECURSIVE OverlayFresh(_, _)
OverlayFresh(byId, jobs) ==
    IF jobs = <<>> THEN byId
    ELSE OverlayFresh(MapSet(byId, StringOf(Head(jobs).id), Head(jobs)), Tail(jobs))

mergeJobs(existing, fresh, now) ==
    SortByPostedDate(MapValues(OverlayFresh(SeedExisting(<<>>, existing, now), fresh)))

\* ------------------------------------------------------------------ source adapters
Sources == {"salesforce", "booking", "linkedin", "linkedin_easy_all"}

\* The sections whose titles main collects in careersTitles.
CareersSources == {"salesforce", "booking", "linkedin"}

\* An id that the upstream record does not carry.
NoId == [kind |-> "undefined", text |-> "undefined"]

StringId(text) == [kind |-> "string", text |-> text]

NumberId(text) == [kind |-> "number", text |-> text]

\* a || b on strings: the empty string and undefined are falsy.
OrElse(a, b) == IF a \in {"", Undefined} THEN b ELSE a

\* a || b on ids
IdOrElse(a, b) == IF a = NoId \/ a.text = "" THEN b ELSE a

\* The object literal of an adapter; filterBySalary adds the last two fields.
NewJob(id, title, department, postedDate) ==
    [id |-> id, title |-> title, department |-> department,
     postedDate |-> postedDate, salaryRange |-> <<>>, salarySource |-> Undefined]

\* new Date().toISOString(), for the times of the model (whole days).
ToISOString(now) ==
    CHOOSE s \in DOMAIN DateTable : DateTable[s] * DayMs = now

\* 'li-' + n
LiId(n) == StringId(CASE n = 0 -> "li-0" [] n = 1 -> "li-1" [] n = 2 -> "li-2"
                      [] OTHER -> "li-3")

\* The body of the try block of fetchSalesforce. A response is [status, blocks]:
\* httpGet rejects when status is "failed"; a block holds what get(tag) returns.
SalesforceTry(resp) ==
    LET Keep(b) == b.country = "India" /\ matchesRoleFilter(b.title, "salesforce")
        kept == SelectSeqBy(resp.blocks, Keep)
    IN  [threw |-> resp.status = "failed",
         jobs |-> SortByPostedDate(
                    [i \in 1..Len(kept) |->
                       NewJob(StringId(kept[i].requisitionid), kept[i].title,
                              kept[i].category, kept[i].date)])]

\* Mutant of fetchSalesforce: no try/catch, the rejection reaches the caller.
fetchSalesforceNoCatch(resp) == SalesforceTry(resp)

fetchSalesforce(resp) ==
    IF SalesforceTry(resp).threw THEN [threw |-> FALSE, jobs |-> <<>>]
    ELSE SalesforceTry(resp)

\* The body of the try block of fetchBooking. An item holds the fields of
\* item.data; category holds at most one name, already trimmed.
BookingTry(resp) ==
    LET Keep(d) == matchesRoleFilter(OrElse(d.title, ""), "booking")
        kept == SelectSeqBy(resp.items, Keep)
    IN  [threw |-> resp.status = "failed",
         jobs |-> SortByPostedDate(
                    [i \in 1..Len(kept) |->
                       NewJob(IdOrElse(kept[i].req_id, kept[i].slug),
                              OrElse(kept[i].title, ""),
                              IF kept[i].category = <<>> THEN EmDash
                              ELSE kept[i].category[1],
                              OrElse(kept[i].posted_date, kept[i].create_date))])]

fetchBooking(resp) ==
    IF BookingTry(resp).threw THEN [threw |-> FALSE, jobs |-> <<>>]
    ELSE BookingTry(resp)

\* The loop over the cards of a page in fetchLinkedIn. A card holds what the
\* regular expressions capture, trimmed; Undefined where one does not match.
RECURSIVE LinkedInCards(_, _, _)
LinkedInCards(cards, allJobs, now) ==
    IF cards = <<>> THEN allJobs
    ELSE LET card == Head(cards) IN
         IF card.title = Undefined \/ ~matchesRoleFilter(card.title, "linkedin")
         THEN LinkedInCards(Tail(cards), allJobs, now)
         ELSE LinkedInCards(Tail(cards),
                Append(allJobs,
                  NewJob(IF card.link # Undefined THEN StringId(card.link)
                         ELSE LiId(Len(allJobs)),
                         card.title,
                         OrElse(card.company, "LinkedIn"),
                         IF card.datetime # Undefined THEN card.datetime
                         ELSE ToISOString(now))),
                now)

\* fetchLinkedIn. A response is [status, cards]: the cards of the first page,
\* no later page having any; "failed" when the first request rejects, "partial"
\* when the second one does (the catch returns allJobs as it is, unsorted).
fetchLinkedIn(resp, now) ==
    [threw |-> FALSE,
     jobs |-> CASE resp.status = "failed" -> <<>>
                [] resp.status = "partial" -> LinkedInCards(resp.cards, <<>>, now)
                [] OTHER -> SortByPostedDate(LinkedInCards(resp.cards, <<>>, now))]

RECURSIVE ParseCards(_, _, _)
ParseCards(cards, results, now) ==
    IF cards = <<>> THEN results
    ELSE LET card == Head(cards) IN
         IF card.title = Undefined THEN ParseCards(Tail(cards), results, now)
         ELSE ParseCards(Tail(cards),
                Append(results,
                  NewJob(IF card.link # Undefined THEN StringId(card.link)
                         ELSE LiId(Len(results)),
                         card.title,
                         OrElse(card.company, EmDash),
                         IF card.datetime # Undefined THEN card.datetime
                         ELSE ToISOString(now))),
                now)

parseLinkedInCards(cards, now) == ParseCards(cards, <<>>, now)

\* The loop over the jobs of a page in fetchLinkedInEasyApplyAll.
RECURSIVE EasyApplyJobs(_, _)
EasyApplyJobs(jobs, allJobs) ==
    IF jobs = <<>> THEN allJobs
    ELSE LET job == Head(jobs) IN
         IF \/ \E i \in 1..Len(allJobs) : allJobs[i].id = job.id
            \/ ~matchesEasyApplyFilter(job.title)
            \/ isExternalApplyCompany(job.department)
         THEN EasyApplyJobs(Tail(jobs), allJobs)
         ELSE EasyApplyJobs(Tail(jobs), Append(allJobs, job))

\* fetchLinkedInEasyApplyAll. A response is [status, cards]: the cards its
\* requests return, taken as one page; "failed" when every request rejects
\* (each query's catch logs it and the loop goes on).
fetchLinkedInEasyApplyAll(resp, now) ==
    [threw |-> FALSE,
     jobs |-> IF resp.status = "failed" THEN <<>>
              ELSE SortByPostedDate(
                     EasyApplyJobs(parseLinkedInCards(resp.cards, now), <<>>))]

\* ------------------------------------------------------------------ main
\* Mutant of NormalizeTitle: the case of the title is kept.
NormalizeTitleCaseSensitive(title) == Trim(Chars(title))

\* job.title.toLowerCase().trim(): the result, as its characters.
NormalizeTitle(title) == Trim(ToLowerCase(Chars(title)))

\* The titles that the upstream responses of the model carry.
JobTitles ==
    {"Senior Member of Technical Staff", "SMTS", "Senior Software Engineer",
     " Senior Software Engineer ", "senior software engineer",
     "Senior Software Engineering Manager", "Software Engineer II",
     "Sr. Software Engineer", "Staff Software Engineer", "Senior Backend Engineer"}

\* NormalizeTitle on the titles of the model.
TitleKey == [t \in JobTitles |-> NormalizeTitle(t)]

careersTitles(salesforce, booking, linkedin) ==
    {TitleKey[j.title] :
        j \in {(salesforce \o booking \o linkedin)[i] :
                 i \in 1..(Len(salesforce) + Len(booking) + Len(linkedin))}}

\* linkedinEasyAll.filter((j) => !careersTitles.has(...))
DedupEasyAll(linkedinEasyAll, titles) ==
    LET Keep(j) == TitleKey[j.title] \notin titles IN
    SelectSeqBy(linkedinEasyAll, Keep)

\* The artifact as loadExistingJobs returns it when there is no file: null.
NoArtifact ==
    [exists |-> FALSE, fetchedAt |-> 0, companies |-> [s \in Sources |-> <<>>]]

\* Mutant of PrevJobs: the previous records are not read.
PrevJobsNone(existing, key) == <<>>

\* (prevCompanies[key] && prevCompanies[key].jobs) || []
PrevJobs(existing, key) ==
    IF existing.exists THEN existing.companies[key] ELSE <<>>

\* ------------------------------------------------------------------ upstream responses
\* Days the clock can advance after the first run.
MaxDays == 2

\* The time of the first run: 2024-01-11T00:00:00Z.
FirstNow == 10 * DayMs

\* The times at which a run can start.
Clocks == {FirstNow + d * DayMs : d \in 0..MaxDays}

SfIndia ==
    [requisitionid |-> "JR1", title |-> "Senior Member of Technical Staff",
     country |-> "India", category |-> "Engineering", date |-> "2024-01-05"]

SfAbroad ==
    [requisitionid |-> "JR2", title |-> "SMTS",
     country |-> "United States", category |-> "Engineering", date |-> "2024-01-10"]

SalesforceResponses ==
    {[status |-> "failed", blocks |-> <<>>],
     [status |-> "ok", blocks |-> <<SfAbroad, SfIndia>>]}

\* posted on 2024-01-04
Bk1 ==
    [req_id |-> NumberId("1"), slug |-> StringId("senior-software-engineer"),
     title |-> "Senior Software Engineer", category |-> <<"Engineering">>,
     posted_date |-> "2024-01-04", create_date |-> "2024-01-03"]

\* no req_id, no posted_date: the slug and create_date stand in
Bk2 ==
    [req_id |-> NoId, slug |-> StringId("2"),
     title |-> " Senior Software Engineer ", category |-> <<>>,
     posted_date |-> Undefined, create_date |-> "2024-01-05"]

Bk3 ==
    [req_id |-> StringId("3"), slug |-> NoId,
     title |-> "Senior Software Engineering Manager", category |-> <<"Engineering">>,
     posted_date |-> "2024-01-10", create_date |-> Undefined]

\* not a target role
Bk4 ==
    [req_id |-> StringId("4"), slug |-> NoId,
     title |-> "Software Engineer II", category |-> <<"Engineering">>,
     posted_date |-> "2024-01-10", create_date |-> Undefined]

\* no date at all
Bk5 ==
    [req_id |-> StringId("5"), slug |-> NoId,
     title |-> "Senior Software Engineer", category |-> <<"Engineering">>,
     posted_date |-> Undefined, create_date |-> Undefined]

BookingResponses ==
    {[status |-> "failed", items |-> <<>>],
     [status |-> "ok", items |-> <<Bk1>>],
     [status |-> "ok", items |-> <<Bk5>>],
     [status |-> "ok", items |-> <<Bk3, Bk4, Bk2, Bk1>>]}

\* no datetime: postedDate is the time of the run
Li1 ==
    [title |-> "Sr. Software Engineer", link |-> "3801", company |-> "LinkedIn",
     datetime |-> Undefined]

Li2 ==
    [title |-> "Staff Software Engineer", link |-> "3802", company |-> "LinkedIn",
     datetime |-> "2024-01-10"]

LinkedInResponses ==
    {[status |-> "failed", cards |-> <<>>],
     [status |-> "partial", cards |-> <<Li1>>],
     [status |-> "ok", cards |-> <<Li2, Li1>>]}

\* the title of Bk1 in lower case, from another company, with another id
Ea1 ==
    [title |-> "senior software engineer", link |-> "4801", company |-> "Agoda",
     datetime |-> "2024-01-05"]

\* a company that is not in the curated table
Ea2 ==
    [title |-> "Senior Backend Engineer", link |-> "4802", company |-> "Acme Corp",
     datetime |-> "2024-01-10"]

\* a company that always redirects to its own portal
Ea3 ==
    [title |-> "Senior Software Engineer", link |-> "4803", company |-> "LinkedIn",
     datetime |-> "2024-01-10"]

EasyApplyResponses ==
    {[status |-> "failed", cards |-> <<>>],
     [status |-> "ok", cards |-> <<Ea1>>],
     [status |-> "ok", cards |-> <<Ea2, Ea3, Ea1, Ea1>>]}

\* What the adapters resolve to, for each response and each time of the model.
SalesforceResult == [r \in SalesforceResponses |-> fetchSalesforce(r)]

BookingResult == [r \in BookingResponses |-> fetchBooking(r)]

LinkedInResult == [r \in LinkedInResponses, t \in Clocks |-> fetchLinkedIn(r, t)]

EasyApplyResult ==
    [r \in EasyApplyResponses, t \in Clocks |-> fetchLinkedInEasyApplyAll(r, t)]

\* ------------------------------------------------------------------ specification of the runs
UpstreamIdle == [s \in Sources |-> "none"]

NoJobs == [s \in Sources |-> <<>>]

\* No run has started; data/jobs.json and data/salary-cache.json do not exist.
RunIdle ==
    /\ clock = FirstNow
    /\ artifact = NoArtifact
    /\ salaryCacheFile = <<>>
    /\ pc = "idle"
    /\ upstream = UpstreamIdle
    /\ adapterJobs = NoJobs
    /\ easyAllDeduped = <<>>
    /\ easyAllSalaryFiltered = <<>>
    /\ exitCode = 0

\* The lists main hands to mergeJobs as fresh: what the careers adapters
\* returned, and easyAllSalaryFiltered for linkedin_easy_all.
FreshLists(jobs, filtered) ==
    [s \in Sources |-> IF s = "linkedin_easy_all" THEN filtered ELSE jobs[s]]

\* The output object of main and its write to data/jobs.json. What
\* JSON.stringify drops (a field that is undefined) reads as undefined again
\* after JSON.parse, and strings and numbers are written as they are.
WriteArtifact(existing, fresh, now) ==
    [exists |-> TRUE,
     fetchedAt |-> now,
     companies |-> [s \in Sources |-> mergeJobs(PrevJobs(existing, s), fresh[s], now)]]

\* One run of main, started by the scheduler: loadExistingJobs; the four
\* adapters, awaited by Promise.all; careersTitles and easyAllDeduped;
\* loadSalaryCache and filterBySalary (the requests for the companies the curated
\* table does not cover, saveSalaryCache, the second pass); the four merges and
\* the write. A rejection of an adapter rejects main before anything is written,
\* and the catch of main exits with code 1.
main ==
    /\ pc = "idle"
    /\ \E rs \in SalesforceResponses, rb \in BookingResponses,
          rl \in LinkedInResponses, re \in EasyApplyResponses :
         /\ upstream' = [s \in Sources |->
                           CASE s = "salesforce" -> rs.status
                             [] s = "booking" -> rb.status
                             [] s = "linkedin" -> rl.status
                             [] OTHER -> re.status]
         /\ adapterJobs' = [s \in Sources |->
                              CASE s = "salesforce" -> SalesforceResult[rs].jobs
                                [] s = "booking" -> BookingResult[rb].jobs
                                [] s = "linkedin" -> LinkedInResult[rl, clock].jobs
                                [] OTHER -> EasyApplyResult[re, clock].jobs]
         /\ IF \/ SalesforceResult[rs].threw
               \/ BookingResult[rb].threw
               \/ LinkedInResult[rl, clock].threw
               \/ EasyApplyResult[re, clock].threw
            THEN /\ exitCode' = 1
                 /\ easyAllDeduped' = <<>>
                 /\ easyAllSalaryFiltered' = <<>>
                 /\ UNCHANGED <<artifact, salaryCacheFile>>
            ELSE /\ exitCode' = 0
                 /\ easyAllDeduped' =
                      DedupEasyAll(adapterJobs'["linkedin_easy_all"],
                                   careersTitles(adapterJobs'["salesforce"],
                                                 adapterJobs'["booking"],
                                                 adapterJobs'["linkedin"]))
                 /\ \E results \in [1..Len(needAmbitionBox(easyAllDeduped'))
                                       -> AmbitionBoxResults] :
                       salaryCacheFile' =
                         LookupAll(needAmbitionBox(easyAllDeduped'), salaryCacheFile,
                                   clock, results)
                 /\ easyAllSalaryFiltered' = PassedJobs(easyAllDeduped', salaryCacheFile')
                 /\ artifact' =
                      WriteArtifact(artifact,
                                    FreshLists(adapterJobs', easyAllSalaryFiltered'),
                                    clock)
    /\ pc' = "exited"
    /\ UNCHANGED <<clock, mergeVars, filterVars, salaryVars, writeVars, joinVars, viewerVars, lookupVars, pagingVars, workerVars>>

\* The process is gone and its memory with it; the two files stay.
ProcessExit ==
    /\ pc = "exited"
    /\ pc' = "idle"
    /\ upstream' = UpstreamIdle
    /\ adapterJobs' = NoJobs
    /\ easyAllDeduped' = <<>>
    /\ easyAllSalaryFiltered' = <<>>
    /\ exitCode' = 0
    /\ UNCHANGED <<clock, artifact, salaryCacheFile, mergeVars, filterVars, salaryVars, writeVars, joinVars, viewerVars, lookupVars, pagingVars, workerVars>>

\* A day passes between two runs.
Tick ==
    /\ pc = "idle"
    /\ clock < FirstNow + MaxDays * DayMs
    /\ clock' = clock + DayMs
    /\ UNCHANGED <<artifact, salaryCacheFile, pc, upstream, adapterJobs,
                   easyAllDeduped, easyAllSalaryFiltered, exitCode,
                   mergeVars, filterVars, salaryVars, writeVars, joinVars, viewerVars, lookupVars, pagingVars, workerVars>>

\* ------------------------------------------------------------------ inputs of the merge
MaxExisting == 1
MaxFresh == 2

\* The number 1 and the string "1" are the same key; "2", "3" are others.
MergeIds == {[kind |-> "number", text |-> "1"],
             [kind |-> "string", text |-> "1"],
             [kind |-> "string", text |-> "2"],
             [kind |-> "string", text |-> "3"]}

MergeTitles == {"Senior Software Engineer", "Senior Backend Engineer"}

\* 8 days old, exactly 7 days old, and unparseable, at MergeNow.
MergeDates == {"2024-01-03", "2024-01-04", ""}

MergeNow == 10 * DayMs

\* The title varies on one id, so that two versions of a job can differ in a
\* field other than id and postedDate.
MergeJobUniverse ==
    {j \in [id : MergeIds, title : MergeTitles, postedDate : MergeDates] :
        j.title = "Senior Software Engineer" \/ j.id = [kind |-> "string", text |-> "1"]}

SeqsUpTo(S, n) == UNION {[1..k -> S] : k \in 0..n}

\* ------------------------------------------------------------------ specification of the merge
MergeArgs ==
    /\ existingJobs \in SeqsUpTo(MergeJobUniverse, MaxExisting)
    /\ freshJobs \in SeqsUpTo(MergeJobUniverse, MaxFresh)
    /\ mergeNow = MergeNow
    /\ merged = <<>>
    /\ mergedAgain = <<>>
    /\ mergePc = "start"

\* data/jobs.json as it is when it has never been written.
NoFile == [exists |-> FALSE, text |-> <<>>]

\* No run is at its write.
WriteIdle ==
    /\ jobsFile = NoFile
    /\ jobsFileBefore = NoFile
    /\ output = NoArtifact
    /\ writePc = "idle"
    /\ writeExit = 0

\* filterBySalary is not called.
SalaryIdle ==
    /\ salaryJobs = <<>>
    /\ salaryCache = <<>>
    /\ salaryNow = FirstNow
    /\ savedCache = <<>>
    /\ passed = <<>>
    /\ salaryPc = "idle"

\* No run is followed through its join.
JoinIdle ==
    /\ joinPc = "idle"
    /\ promise = [s \in Sources |-> "none"]
    /\ settled = NoJobs
    /\ joinUpstream = UpstreamIdle
    /\ joinValues = NoJobs
    /\ joinExisting = NoArtifact
    /\ joinDeduped = <<>>
    /\ joinFiltered = <<>>
    /\ joinArtifact = NoArtifact
    /\ joinCacheFile = <<>>
    /\ touched = {}
    /\ joinExit = 0

\* The sections of the viewer: the live Deliveroo section and the four keys of
\* data/jobs.json.
ViewSections == {"deliveroo"} \cup Sources

\* localStorage without the key job_radar_cache, read with || {}.
EmptyCache == [s \in ViewSections |-> [has |-> FALSE, jobs |-> <<>>]]

\* The lists of the page as index.html has them: no cards, and the markup's
\* own hidden attributes.
EmptyLists == [s \in ViewSections |-> <<>>]

InitialShown == [s \in ViewSections |-> "initial"]

NoneDone == [b \in {"deliveroo", "target"} |-> FALSE]

\* The viewer is not open, and nothing is stored in the browser.
ViewerIdle ==
    /\ viewPc = "closed"
    /\ online = TRUE
    /\ swActive = FALSE
    /\ swRoles = [has |-> FALSE, jobs |-> <<>>]
    /\ swJobsJson = {}
    /\ storedCache = EmptyCache
    /\ storedSeen = {}
    /\ list = EmptyLists
    /\ shown = InitialShown
    /\ previousSeenIds = {}
    /\ newCache = EmptyCache
    /\ allJobIds = {}
    /\ done = NoneDone
    /\ renderedSections = {}
    /\ fetchT = 0
    /\ viewClock = 0
    /\ renderedEarlier = {}
    /\ failed = {}

\* A response: its status and its body.
Response(status, body) == [status |-> status, body |-> body]

\* No response: what caches.match resolves to when nothing matches.
NoResponse == Response(0, "")

\* The network was not asked.
Untouched == [kind |-> "untouched", status |-> 0, body |-> ""]

\* A URL: its hostname, its pathname and its query (the t of data/jobs.json, 0
\* when there is none).
Url(hostname, pathname, t) == [hostname |-> hostname, pathname |-> pathname, t |-> t]

NoUrl == Url("", "", 0)

\* The service worker is not followed.
WorkerIdle ==
    /\ wkPc = "idle"
    /\ wkKeys = {}
    /\ wkShell = <<>>
    /\ wkData = <<>>
    /\ wkClock = 0
    /\ wkLastOk = <<>>
    /\ wkRequest = NoUrl
    /\ wkNet = Untouched
    /\ wkResponse = NoResponse

\* No paging adapter is followed through its pages.
PagingIdle ==
    /\ pgAdapter = "none"
    /\ pgQuery = 0
    /\ pgStart = 0
    /\ pgSeen = {}
    /\ pgPages = 0
    /\ pgLast = "none"
    /\ pgLastAdded = 0
    /\ pgPc = "idle"

\* filterBySalary is not followed through its batches.
LookupIdle ==
    /\ lkJobs = <<>>
    /\ lkCache0 = <<>>
    /\ lkCache = <<>>
    /\ lkNext = 0
    /\ inFlight = {}
    /\ requested = <<>>
    /\ stored = <<>>
    /\ lkSaved = <<>>
    /\ lkPassed = <<>>
    /\ lkPc = "idle"
    /\ lkCompany = Undefined
    /\ lkFetched = <<>>

\* The merge is not called.
MergeIdle ==
    /\ existingJobs = <<>>
    /\ freshJobs = <<>>
    /\ mergeNow = MergeNow
    /\ merged = <<>>
    /\ mergedAgain = <<>>
    /\ mergePc = "idle"

\* The role filter is not called.
FilterIdle ==
    /\ filterTitle = ""
    /\ filterCompany = ""
    /\ filterResult = FALSE
    /\ filterPc = "idle"

MergeOnce ==
    /\ mergePc = "start"
    /\ merged' = mergeJobs(existingJobs, freshJobs, mergeNow)
    /\ mergePc' = "merged"
    /\ UNCHANGED <<existingJobs, freshJobs, mergeNow, mergedAgain, filterVars, runVars, salaryVars, writeVars, joinVars, viewerVars, lookupVars, pagingVars, workerVars>>

MergeAgain ==
    /\ mergePc = "merged"
    /\ mergedAgain' = mergeJobs(merged, freshJobs, mergeNow)
    /\ mergePc' = "remerged"
    /\ UNCHANGED <<existingJobs, freshJobs, mergeNow, merged, filterVars, runVars,
                   salaryVars, writeVars, joinVars, viewerVars, lookupVars, pagingVars, workerVars>>

MergeNext == MergeOnce \/ MergeAgain

MergeInit == MergeArgs /\ FilterIdle /\ RunIdle /\ SalaryIdle /\ WriteIdle /\ JoinIdle /\ ViewerIdle /\ LookupIdle /\ PagingIdle /\ WorkerIdle

SpecMerge == MergeInit /\ [][MergeNext]_vars

\* ------------------------------------------------------------------ specification of the role filter
FilterTitles ==
    {"Senior Software Engineer", "senior software engineer", " Senior Software Engineer ",
     "SENIOR  SOFTWARE ENGINEER", "Sr. Software Engineer", "Sr Software Engineer",
     "Staff Software Engineer", "Senior Staff Software Engineer",
     "Senior Software Engineer - Staff", "Lead Senior Software Engineer",
     "Senior Software Engineering Manager", "Software Engineer II",
     "Senior Member of Technical Staff", "SMTS", "Software Engineering SMTS",
     "SMTSX Engineer", "Senior Backend Engineer", "",
     "STAFF Senior Software Engineer", "Sr. Software Engineer (Principal)",
     "SENIOR Software Engineer, Frontend", "Senior Software Engineer - Machine Learning",
     "Senior Security Software Engineer", "Senior Software Test Engineer",
     "Senior Embedded Software Engineer", "Senior Software Engineer UI",
     "Staff Backend Engineer", "Senior Frontends Software Engineer"}

\* The three classes of the switch, and two names it does not know.
FilterCompanies == {"salesforce", "booking", "linkedin", "linkedin_easy_all", "deliveroo"}

FilterArgs ==
    /\ filterTitle \in FilterTitles
    /\ filterCompany \in FilterCompanies
    /\ filterResult = FALSE
    /\ filterPc = "start"

FilterCall ==
    /\ filterPc = "start"
    /\ filterResult' = matchesRoleFilter(filterTitle, filterCompany)
    /\ filterPc' = "done"
    /\ UNCHANGED <<filterTitle, filterCompany, mergeVars, runVars, salaryVars, writeVars, joinVars, viewerVars, lookupVars, pagingVars, workerVars>>

\* One call of matchesEasyApplyFilter(title).
EasyApplyFilterCall ==
    /\ filterPc = "start"
    /\ filterResult' = matchesEasyApplyFilter(filterTitle)
    /\ filterPc' = "doneEasyApply"
    /\ UNCHANGED <<filterTitle, filterCompany, mergeVars, runVars, salaryVars, writeVars, joinVars, viewerVars, lookupVars, pagingVars, workerVars>>

FilterNext == FilterCall \/ EasyApplyFilterCall

FilterInit == FilterArgs /\ MergeIdle /\ RunIdle /\ SalaryIdle /\ WriteIdle /\ JoinIdle /\ ViewerIdle /\ LookupIdle /\ PagingIdle /\ WorkerIdle

SpecFilter == FilterInit /\ [][FilterNext]_vars

\* ------------------------------------------------------------------ inputs of filterBySalary
\* Jobs in the argument of filterBySalary.
MaxSalaryJobs == 3

\* One job for each company: two curated above the threshold (CRED exactly at
\* it), one curated below it, two that the curated table does not cover, and
\* one without department.
SalaryJobUniverse ==
    {NewJob(StringId("4801"), "Senior Backend Engineer", "Agoda", "2024-01-05"),
     NewJob(StringId("4802"), "Senior Backend Engineer", "CRED", "2024-01-05"),
     NewJob(StringId("4803"), "Senior Backend Engineer", "Visa", "2024-01-05"),
     NewJob(StringId("4804"), "Senior Backend Engineer", "Acme Corp", "2024-01-05"),
     NewJob(StringId("4805"), "Senior Backend Engineer", "Zed Labs", "2024-01-05"),
     NewJob(StringId("4806"), "Senior Backend Engineer", "", "2024-01-05")}

CacheEntry(max, ts) ==
    [minLPA |-> IF max = Null THEN Null ELSE max - 10, maxLPA |-> max,
     source |-> "ambitionbox", ts |-> ts]

\* What loadSalaryCache can return: nothing, or an entry for acme-corp that is a
\* day old (50, 49, or nothing found) or fourteen days old.
SalaryCaches ==
    {<<>>} \cup
    {CachePut(<<>>, Slug["Acme Corp"], e) :
       e \in {CacheEntry(50, FirstNow - DayMs), CacheEntry(49, FirstNow - DayMs),
              CacheEntry(Null, FirstNow - DayMs),
              CacheEntry(60, FirstNow - SALARY_CACHE_TTL_DAYS * DayMs)}}

SalaryArgs ==
    /\ salaryJobs \in SeqsUpTo(SalaryJobUniverse, MaxSalaryJobs)
    /\ salaryCache \in SalaryCaches
    /\ salaryNow = FirstNow
    /\ savedCache = <<>>
    /\ passed = <<>>
    /\ salaryPc = "start"

\* filterBySalary(salaryJobs, salaryCache): the lookups, with what each request
\* resolves to, saveSalaryCache, and the second pass.
FilterBySalaryCall ==
    /\ salaryPc = "start"
    /\ \E results \in [1..Len(needAmbitionBox(salaryJobs)) -> AmbitionBoxResults] :
          savedCache' = LookupAll(needAmbitionBox(salaryJobs), salaryCache,
                                  salaryNow, results)
    /\ passed' = PassedJobs(salaryJobs, savedCache')
    /\ salaryPc' = "done"
    /\ UNCHANGED <<salaryJobs, salaryCache, salaryNow, mergeVars, filterVars, runVars, writeVars, joinVars, viewerVars, lookupVars, pagingVars, workerVars>>

SalaryNext == FilterBySalaryCall

SalaryInit == SalaryArgs /\ MergeIdle /\ FilterIdle /\ RunIdle /\ WriteIdle /\ JoinIdle /\ ViewerIdle /\ LookupIdle /\ PagingIdle /\ WorkerIdle

SpecSalary == SalaryInit /\ [][SalaryNext]_vars

\* ------------------------------------------------------------------ the write of data/jobs.json
\* JSON.stringify(output, null, 2), as the pieces a write can be cut between:
\* the opening brace, one member for fetchedAt and one for each section, and
\* the closing brace.
Piece(key, value) == [key |-> key, value |-> value]

Serialize(a) ==
    <<Piece("{", <<>>), Piece("fetchedAt", <<a.fetchedAt>>),
      Piece("salesforce", a.companies["salesforce"]),
      Piece("booking", a.companies["booking"]),
      Piece("linkedin", a.companies["linkedin"]),
      Piece("linkedin_easy_all", a.companies["linkedin_easy_all"]),
      Piece("}", <<>>)>>

\* Whether JSON.parse accepts the text: it is a whole document.
Parses7(text) ==
    /\ Len(text) = 7
    /\ text[1].key = "{"
    /\ text[7].key = "}"

\* JSON.parse of a whole document.
Deserialize(text) ==
    [exists |-> TRUE,
     fetchedAt |-> text[2].value[1],
     companies |-> [s \in Sources |->
                      text[CHOOSE i \in 3..6 : text[i].key = s].value]]

\* The documents of the model: one written the day before, and two that a run
\* of 2024-01-11 can write.
OneBookingJob ==
    <<NewJob(NumberId("1"), "Senior Software Engineer", "Engineering", "2024-01-04")>>

PreviousOutputs ==
    {[exists |-> TRUE, fetchedAt |-> FirstNow - DayMs, companies |-> NoJobs],
     [exists |-> TRUE, fetchedAt |-> FirstNow - DayMs,
      companies |-> [NoJobs EXCEPT !["booking"] = OneBookingJob]]}

NewOutputs ==
    {[exists |-> TRUE, fetchedAt |-> FirstNow, companies |-> NoJobs],
     [exists |-> TRUE, fetchedAt |-> FirstNow,
      companies |-> [NoJobs EXCEPT !["booking"] = OneBookingJob]],
     [exists |-> TRUE, fetchedAt |-> FirstNow,
      companies |-> [NoJobs EXCEPT !["linkedin"] = OneBookingJob]]}

\* main has built output and is at line 1208; data/jobs.json is missing or
\* holds a whole document of an earlier run.
WriteArgs ==
    /\ jobsFile \in {NoFile} \cup
                     {[exists |-> TRUE, text |-> Serialize(a)] : a \in PreviousOutputs}
    /\ jobsFileBefore = jobsFile
    /\ output \in NewOutputs
    /\ writePc = "mkdir"
    /\ writeExit = -1

\* An exception escapes main: the catch of line 1219 exits with code 1.
Fatal ==
    /\ writePc' = "exited"
    /\ writeExit' = 1

\* fs.mkdirSync(dir, {recursive: true}): returns, or throws.
MkdirSync ==
    /\ writePc = "mkdir"
    /\ \/ writePc' = "open" /\ UNCHANGED writeExit
       \/ Fatal
    /\ UNCHANGED <<jobsFile, jobsFileBefore, output, mergeVars, filterVars, runVars,
                   salaryVars, joinVars, viewerVars, lookupVars, pagingVars, workerVars>>

\* fs.writeFileSync, its open with flag 'w': the file is created or truncated
\* to length zero; or the open fails and the file is as it was.
OpenSync ==
    /\ writePc = "open"
    /\ \/ /\ jobsFile' = [exists |-> TRUE, text |-> <<>>]
          /\ writePc' = "write"
          /\ UNCHANGED writeExit
       \/ Fatal /\ UNCHANGED jobsFile
    /\ UNCHANGED <<jobsFileBefore, output, mergeVars, filterVars, runVars, salaryVars, joinVars, viewerVars, lookupVars, pagingVars, workerVars>>

\* fs.writeFileSync, its writes: the next piece reaches the file; or the write
\* fails (the disk is full) and the file keeps what it has.
WriteSync ==
    /\ writePc = "write"
    /\ Len(jobsFile.text) < Len(Serialize(output))
    /\ \/ /\ jobsFile' = [jobsFile EXCEPT
                           !.text = Append(@, Serialize(output)[Len(@) + 1])]
          /\ UNCHANGED <<writePc, writeExit>>
       \/ Fatal /\ UNCHANGED jobsFile
    /\ UNCHANGED <<jobsFileBefore, output, mergeVars, filterVars, runVars, salaryVars, joinVars, viewerVars, lookupVars, pagingVars, workerVars>>

\* The file is closed, main logs the totals and resolves: exit code 0.
CloseSync ==
    /\ writePc = "write"
    /\ Len(jobsFile.text) = Len(Serialize(output))
    /\ writePc' = "exited"
    /\ writeExit' = 0
    /\ UNCHANGED <<jobsFile, jobsFileBefore, output, mergeVars, filterVars, runVars,
                   salaryVars, joinVars, viewerVars, lookupVars, pagingVars, workerVars>>

\* The process is killed (the job is cancelled or times out).
Killed ==
    /\ writePc \in {"mkdir", "open", "write"}
    /\ writePc' = "exited"
    /\ writeExit' = 137
    /\ UNCHANGED <<jobsFile, jobsFileBefore, output, mergeVars, filterVars, runVars,
                   salaryVars, joinVars, viewerVars, lookupVars, pagingVars, workerVars>>

WriteNext == MkdirSync \/ OpenSync \/ WriteSync \/ CloseSync \/ Killed

WriteInit == WriteArgs /\ MergeIdle /\ FilterIdle /\ RunIdle /\ SalaryIdle /\ JoinIdle /\ ViewerIdle /\ LookupIdle /\ PagingIdle /\ WorkerIdle

SpecWrite == WriteInit /\ [][WriteNext]_vars

\* ------------------------------------------------------------------ specification of the join
\* One run of main followed step by step from its first line to the write, at
\* the time FirstNow. main is at line 1136; data/jobs.json is missing or holds
\* the document of an earlier run.
JoinArgs ==
    /\ joinPc = "start"
    /\ promise = [s \in Sources |-> "none"]
    /\ settled = NoJobs
    /\ joinUpstream = UpstreamIdle
    /\ joinValues = NoJobs
    /\ joinExisting = NoArtifact
    /\ joinDeduped = <<>>
    /\ joinFiltered = <<>>
    /\ joinArtifact \in {NoArtifact} \cup PreviousOutputs
    /\ joinCacheFile = <<>>
    /\ touched = {}
    /\ joinExit = 0

JoinRest == <<mergeVars, filterVars, runVars, salaryVars, writeVars, viewerVars,
             lookupVars, pagingVars, workerVars>>

\* Lines 1136-1144, up to the await: loadExistingJobs reads data/jobs.json, then
\* the four adapters are called and each runs up to its first request.
LoadAndCallAdapters ==
    /\ joinPc = "start"
    /\ joinExisting' = joinArtifact
    /\ touched' = touched \cup {"artifact read"}
    /\ promise' = [s \in Sources |-> "pending"]
    /\ joinPc' = "awaiting"
    /\ UNCHANGED <<settled, joinUpstream, joinValues, joinDeduped, joinFiltered,
                   joinArtifact, joinCacheFile, joinExit, JoinRest>>

\* The promise of adapter s settles: fulfilled with the adapter's array, or
\* rejected with what it threw.
Settle(s, status, result) ==
    /\ joinPc = "awaiting"
    /\ promise[s] = "pending"
    /\ joinUpstream' = [joinUpstream EXCEPT ![s] = status]
    /\ settled' = [settled EXCEPT ![s] = result.jobs]
    /\ promise' = [promise EXCEPT ![s] = IF result.threw THEN "rejected" ELSE "fulfilled"]
    /\ UNCHANGED <<joinPc, joinValues, joinExisting, joinDeduped, joinFiltered,
                   joinArtifact, joinCacheFile, touched, joinExit, JoinRest>>

SettleSalesforce ==
    \E r \in SalesforceResponses : Settle("salesforce", r.status, SalesforceResult[r])

SettleBooking ==
    \E r \in BookingResponses : Settle("booking", r.status, BookingResult[r])

SettleLinkedIn ==
    \E r \in LinkedInResponses : Settle("linkedin", r.status, LinkedInResult[r, FirstNow])

SettleEasyApply ==
    \E r \in EasyApplyResponses :
        Settle("linkedin_easy_all", r.status, EasyApplyResult[r, FirstNow])

\* await Promise.all([...]): main goes on with the four arrays once all four
\* promises are fulfilled; as soon as one is rejected the await throws, main
\* rejects and its catch calls process.exit(1), which ends the adapters still
\* pending.
AwaitAll ==
    /\ joinPc = "awaiting"
    /\ IF \E s \in Sources : promise[s] = "rejected"
       THEN /\ joinPc' = "exited"
            /\ joinExit' = 1
            /\ UNCHANGED joinValues
       ELSE /\ \A s \in Sources : promise[s] = "fulfilled"
            /\ joinPc' = "joined"
            /\ joinValues' = settled
            /\ UNCHANGED joinExit
    /\ UNCHANGED <<promise, settled, joinUpstream, joinExisting, joinDeduped,
                   joinFiltered, joinArtifact, joinCacheFile, touched, JoinRest>>

\* Lines 1146-1155: careersTitles and easyAllDeduped.
DedupStep ==
    /\ joinPc = "joined"
    /\ joinDeduped' = DedupEasyAll(joinValues["linkedin_easy_all"],
                                   careersTitles(joinValues["salesforce"],
                                                 joinValues["booking"],
                                                 joinValues["linkedin"]))
    /\ touched' = touched \cup {"dedup"}
    /\ joinPc' = "deduped"
    /\ UNCHANGED <<promise, settled, joinUpstream, joinValues, joinExisting,
                   joinFiltered, joinArtifact, joinCacheFile, joinExit, JoinRest>>

\* Lines 1160-1161: loadSalaryCache and filterBySalary (the lookups,
\* saveSalaryCache, the second pass).
EnrichStep ==
    /\ joinPc = "deduped"
    /\ \E results \in [1..Len(needAmbitionBox(joinDeduped)) -> AmbitionBoxResults] :
          joinCacheFile' = LookupAll(needAmbitionBox(joinDeduped), joinCacheFile,
                                     FirstNow, results)
    /\ joinFiltered' = PassedJobs(joinDeduped, joinCacheFile')
    /\ touched' = touched \cup {"cache read", "enrichment", "cache write"}
    /\ joinPc' = "filtered"
    /\ UNCHANGED <<promise, settled, joinUpstream, joinValues, joinExisting,
                   joinDeduped, joinArtifact, joinExit, JoinRest>>

\* Lines 1164-1209: the four merges with the previous records, and the write.
MergeAndWriteStep ==
    /\ joinPc = "filtered"
    /\ joinArtifact' = WriteArtifact(joinExisting, FreshLists(joinValues, joinFiltered),
                                     FirstNow)
    /\ touched' = touched \cup {"merge", "artifact write"}
    /\ joinPc' = "written"
    /\ UNCHANGED <<promise, settled, joinUpstream, joinValues, joinExisting,
                   joinDeduped, joinFiltered, joinCacheFile, joinExit, JoinRest>>

JoinNext ==
    \/ LoadAndCallAdapters
    \/ SettleSalesforce
    \/ SettleBooking
    \/ SettleLinkedIn
    \/ SettleEasyApply
    \/ AwaitAll
    \/ DedupStep
    \/ EnrichStep
    \/ MergeAndWriteStep

JoinInit == JoinArgs /\ MergeIdle /\ FilterIdle /\ RunIdle /\ SalaryIdle /\ WriteIdle /\ ViewerIdle /\ LookupIdle /\ PagingIdle /\ WorkerIdle

SpecJoin == JoinInit /\ [][JoinNext]_vars

\* ------------------------------------------------------------------ the viewer
\* Refreshes the page can start, which bounds Date.now().
MaxRefreshes == 2

\* Jobs of the viewer: a card shows more fields, the id decides the badge.
\* The roles API gives numbers as ids, data/jobs.json gives strings.
ViewJob(id) == [id |-> id]

\* What the roles API answers when it is reached: an error status with a body
\* that is not a list of roles, an error status with the body [], or a list
\* with status 200.
DeliverooResponses ==
    {[ok |-> FALSE, isList |-> FALSE, jobs |-> <<>>],
     [ok |-> FALSE, isList |-> TRUE, jobs |-> <<>>],
     [ok |-> TRUE, isList |-> TRUE, jobs |-> <<ViewJob(NumberId("7"))>>],
     [ok |-> TRUE, isList |-> TRUE,
      jobs |-> <<ViewJob(NumberId("8")), ViewJob(NumberId("7"))>>]}

NoCompanies == [s \in Sources |-> [has |-> FALSE, jobs |-> <<>>]]

\* What data/jobs.json answers when it is reached: 404, a document of an older
\* pipeline without linkedin_easy_all, and a document with the four keys.
JobsJsonResponses ==
    {[ok |-> FALSE, companies |-> NoCompanies],
     [ok |-> TRUE,
      companies |-> [s \in Sources |->
                       CASE s = "salesforce" ->
                              [has |-> TRUE, jobs |-> <<ViewJob(StringId("JR1"))>>]
                         [] s = "booking" -> [has |-> TRUE, jobs |-> <<>>]
                         [] s = "linkedin" ->
                              [has |-> TRUE, jobs |-> <<ViewJob(StringId("7"))>>]
                         [] OTHER -> [has |-> FALSE, jobs |-> <<>>]]],
     [ok |-> TRUE,
      companies |-> [s \in Sources |->
                       CASE s = "salesforce" ->
                              [has |-> TRUE, jobs |-> <<ViewJob(StringId("JR2")),
                                                        ViewJob(StringId("JR1"))>>]
                         [] s = "booking" ->
                              [has |-> TRUE, jobs |-> <<ViewJob(StringId("1"))>>]
                         [] s = "linkedin" -> [has |-> TRUE, jobs |-> <<>>]
                         [] OTHER ->
                              [has |-> TRUE, jobs |-> <<ViewJob(StringId("4802"))>>]]]}

\* Mutant of the ids added to allIds: j.id as it is, so that the number 7
\* (written #7 here) is added and not the string "7".
IdsAsTheyAre(jobs) ==
    {IF jobs[i].id.kind = "number" THEN "#" \o jobs[i].id.text ELSE jobs[i].id.text :
        i \in 1..Len(jobs)}

\* jobs.forEach((j) => allIds.add(String(j.id)))
IdStrings(jobs) == {StringOf(jobs[i].id) : i \in 1..Len(jobs)}

\* sectionUI.renderJobs: the cards of the list and the state shown.
\* if (!seenIds.has(String(job.id))) badge.hidden = false
Cards(jobs, seenIds) ==
    [i \in 1..Len(jobs) |->
       [id |-> jobs[i].id, badge |-> StringOf(jobs[i].id) \notin seenIds]]

ShownAfterRender(jobs) == IF jobs = <<>> THEN "empty" ELSE "jobs"

\* networkFirst of the service worker, for the roles URL: the response of the
\* network when there is one; else the cached response; else the body '[]'.
\* Without the service worker a request without network rejects.
\* Deliveroo.fetchJobs then maps the body, whatever the status: a body that is
\* not a list throws.
FetchRoles(r) ==
    IF online THEN [threw |-> ~r.isList, jobs |-> r.jobs]
    ELSE IF ~swActive THEN [threw |-> TRUE, jobs |-> <<>>]
    ELSE IF swRoles.has THEN [threw |-> FALSE, jobs |-> swRoles.jobs]
    ELSE [threw |-> FALSE, jobs |-> <<>>]

\* Whether fetch() of the page rejects or resolves to a response that is not
\* ok: without network and without service worker it rejects; with network the
\* status is that of the server; networkFirst answers with status 200 when the
\* network is gone.
FetchFails(ok) == IF online THEN ~ok ELSE ~swActive

\* The responses DATA_CACHE holds for the URL data/jobs.json?t=<t>.
CachedJobsJson(t) == {e \in swJobsJson : e.t = t}

\* fetchTargetCompanyData through networkFirst: a status that is not ok
\* throws; the body '[]' of the service worker parses to an array, whose
\* .companies is undefined.
FetchJobsJson(r) ==
    IF online THEN [threw |-> ~r.ok, companies |-> r.companies]
    ELSE IF ~swActive THEN [threw |-> TRUE, companies |-> NoCompanies]
    ELSE IF CachedJobsJson(fetchT) # {}
         THEN [threw |-> FALSE,
               companies |-> (CHOOSE e \in CachedJobsJson(fetchT) : TRUE).companies]
    ELSE [threw |-> FALSE, companies |-> NoCompanies]

\* App.loadFromCache: the sections whose cached list is not empty are rendered.
LoadedList(s) ==
    IF storedCache[s].has /\ storedCache[s].jobs # <<>>
    THEN Cards(storedCache[s].jobs, storedSeen)
    ELSE list[s]

LoadedShown(s) ==
    IF storedCache[s].has /\ storedCache[s].jobs # <<>> THEN "jobs" ELSE shown[s]

\* App.refresh up to its await, on a page whose lists are list' already:
\* the seen ids and the cache are read, and the two fetches start; a section
\* without cards shows the loading state.
RefreshStarts ==
    /\ viewClock < MaxRefreshes
    /\ viewClock' = viewClock + 1
    /\ fetchT' = viewClock'
    /\ viewPc' = "refreshing"
    /\ previousSeenIds' = storedSeen
    /\ newCache' = storedCache
    /\ allJobIds' = storedSeen
    /\ done' = NoneDone
    /\ renderedSections' = {}
    /\ failed' = {}
    /\ UNCHANGED <<online, swActive, swRoles, swJobsJson, storedCache, storedSeen,
                   renderedEarlier>>

ViewerRest == <<mergeVars, filterVars, runVars, salaryVars, writeVars, joinVars,
               lookupVars, pagingVars, workerVars>>

\* App.init: the page is opened; loadFromCache, then refresh.
AppInit ==
    /\ viewPc = "closed"
    /\ list' = [s \in ViewSections |-> LoadedList(s)]
    /\ shown' = [s \in ViewSections |->
                   IF list'[s] = <<>> THEN "loading" ELSE LoadedShown(s)]
    /\ RefreshStarts
    /\ UNCHANGED ViewerRest

\* Mutant of isLoading: the flag is never seen set.
isLoadingNever == FALSE

\* this.isLoading, which App.refresh sets before its first read and clears
\* after its last write, together with the disabled state of the refresh button.
isLoading == viewPc = "refreshing"

\* App.refresh from the button, the retry buttons or pull-to-refresh:
\* if (this.isLoading) return;
AppRefresh ==
    /\ viewPc \in {"idle", "refreshing"}
    /\ IF isLoading
       THEN UNCHANGED viewerVars
       ELSE /\ shown' = [s \in ViewSections |->
                           IF list[s] = <<>> THEN "loading" ELSE shown[s]]
            /\ RefreshStarts
            /\ UNCHANGED list
    /\ UNCHANGED ViewerRest

\* App.refreshDeliveroo from the answer of the roles request on. (The teams
\* request decides the team names of the cards only.)
refreshDeliveroo ==
    /\ viewPc = "refreshing"
    /\ ~done["deliveroo"]
    /\ done' = [done EXCEPT !["deliveroo"] = TRUE]
    /\ \E r \in DeliverooResponses :
          /\ failed' = IF FetchFails(r.ok) THEN failed \cup {"deliveroo"} ELSE failed
          /\ swRoles' = IF swActive /\ online /\ r.ok
                        THEN [has |-> TRUE, jobs |-> r.jobs]
                        ELSE swRoles
          /\ IF FetchRoles(r).threw
             THEN /\ shown' = [shown EXCEPT !["deliveroo"] =
                                 IF list["deliveroo"] = <<>> THEN "error" ELSE @]
                  /\ UNCHANGED <<list, newCache, allJobIds, renderedSections>>
             ELSE /\ list' = [list EXCEPT !["deliveroo"] =
                                Cards(FetchRoles(r).jobs, previousSeenIds)]
                  /\ shown' = [shown EXCEPT !["deliveroo"] =
                                 ShownAfterRender(FetchRoles(r).jobs)]
                  /\ newCache' = [newCache EXCEPT !["deliveroo"] =
                                    [has |-> TRUE, jobs |-> FetchRoles(r).jobs]]
                  /\ allJobIds' = allJobIds \cup IdStrings(FetchRoles(r).jobs)
                  /\ renderedSections' = renderedSections \cup {"deliveroo"}
    /\ UNCHANGED <<viewPc, online, swActive, swJobsJson, storedCache, storedSeen,
                   previousSeenIds, fetchT, viewClock, renderedEarlier, ViewerRest>>

\* App.refreshTargetCompanies from the answer of the data/jobs.json request on.
refreshTargetCompanies ==
    /\ viewPc = "refreshing"
    /\ ~done["target"]
    /\ done' = [done EXCEPT !["target"] = TRUE]
    /\ \E r \in JobsJsonResponses :
          /\ failed' = IF FetchFails(r.ok) THEN failed \cup {"target"} ELSE failed
          /\ swJobsJson' = IF swActive /\ online /\ r.ok
                           THEN swJobsJson \cup {[t |-> fetchT, companies |-> r.companies]}
                           ELSE swJobsJson
          /\ IF FetchJobsJson(r).threw
             THEN /\ shown' = [s \in ViewSections |->
                                 IF s \in Sources /\ list[s] = <<>>
                                 THEN "empty" ELSE shown[s]]
                  /\ UNCHANGED <<list, newCache, allJobIds, renderedSections>>
             ELSE /\ list' = [s \in ViewSections |->
                                IF s \in Sources /\ FetchJobsJson(r).companies[s].has
                                THEN Cards(FetchJobsJson(r).companies[s].jobs,
                                           previousSeenIds)
                                ELSE list[s]]
                  /\ shown' = [s \in ViewSections |->
                                 IF s \notin Sources THEN shown[s]
                                 ELSE IF ~FetchJobsJson(r).companies[s].has THEN "empty"
                                 ELSE ShownAfterRender(FetchJobsJson(r).companies[s].jobs)]
                  /\ newCache' = [s \in ViewSections |->
                                    IF s \in Sources /\ FetchJobsJson(r).companies[s].has
                                    THEN FetchJobsJson(r).companies[s]
                                    ELSE newCache[s]]
                  /\ allJobIds' =
                       allJobIds \cup
                       UNION {IdStrings(FetchJobsJson(r).companies[s].jobs) : s \in Sources}
                  /\ renderedSections' =
                       renderedSections \cup
                       {s \in Sources : FetchJobsJson(r).companies[s].has}
    /\ UNCHANGED <<viewPc, online, swActive, swRoles, storedCache, storedSeen,
                   previousSeenIds, fetchT, viewClock, renderedEarlier, ViewerRest>>

\* The ids, as strings, of the cards this refresh has rendered from a fetch.
RenderedIds ==
    UNION {{StringOf(list[s][i].id) : i \in 1..Len(list[s])} : s \in renderedSections}

\* App.refresh after Promise.allSettled: Cache.set(CACHE_KEY, newCache) and
\* Cache.updateSeenIds(allJobIds). Cache.set swallows what localStorage.setItem
\* throws when the storage is full or unavailable.
refreshEnd ==
    /\ viewPc = "refreshing"
    /\ done["deliveroo"] /\ done["target"]
    /\ \E cacheStored, seenStored \in BOOLEAN :
          /\ storedCache' = IF cacheStored THEN newCache ELSE storedCache
          /\ storedSeen' = IF seenStored THEN allJobIds ELSE storedSeen
    /\ renderedEarlier' = renderedEarlier \cup RenderedIds
    /\ viewPc' = "idle"
    /\ previousSeenIds' = {}
    /\ newCache' = EmptyCache
    /\ allJobIds' = {}
    /\ done' = NoneDone
    /\ renderedSections' = {}
    /\ failed' = {}
    /\ UNCHANGED <<online, swActive, swRoles, swJobsJson, list, shown, fetchT,
                   viewClock, ViewerRest>>

\* The page is closed; what it showed is gone, what the browser stored stays.
ClosePage ==
    /\ viewPc = "idle"
    /\ viewPc' = "closed"
    /\ list' = EmptyLists
    /\ shown' = InitialShown
    /\ UNCHANGED <<online, swActive, swRoles, swJobsJson, storedCache, storedSeen,
                   previousSeenIds, newCache, allJobIds, done, renderedSections,
                   fetchT, viewClock, renderedEarlier, failed, ViewerRest>>

\* The service worker registered by App.registerSW is installed and activated
\* and claims the page: from now on the fetches of the page go through it. A
\* request that is already sent keeps its route, so an activation during a
\* refresh shows as one after it.
ActivateServiceWorker ==
    /\ viewPc = "idle"
    /\ ~swActive
    /\ swActive' = TRUE
    /\ UNCHANGED <<viewPc, online, swRoles, swJobsJson, storedCache, storedSeen,
                   list, shown, previousSeenIds, newCache, allJobIds, done,
                   renderedSections, fetchT, viewClock, renderedEarlier, failed,
                   ViewerRest>>

\* The device loses or regains the network.
NetworkChanges ==
    /\ online' = ~online
    /\ UNCHANGED <<viewPc, swActive, swRoles, swJobsJson, storedCache, storedSeen,
                   list, shown, previousSeenIds, newCache, allJobIds, done,
                   renderedSections, fetchT, viewClock, renderedEarlier, failed,
                   ViewerRest>>

ViewerNext ==
    \/ AppInit
    \/ AppRefresh
    \/ refreshDeliveroo
    \/ refreshTargetCompanies
    \/ refreshEnd
    \/ ClosePage
    \/ ActivateServiceWorker
    \/ NetworkChanges

ViewerInit ==
    /\ ViewerIdle /\ MergeIdle /\ FilterIdle /\ RunIdle /\ SalaryIdle /\ WriteIdle
    /\ JoinIdle /\ LookupIdle /\ PagingIdle /\ WorkerIdle

SpecViewer == ViewerInit /\ [][ViewerNext]_vars

\* The viewer with its requests answered: a fetch of the page settles (the
\* browser ends a request that gets no answer, and networkFirst answers when
\* the network is gone), and what follows Promise.allSettled runs.
SpecViewerFair ==
    /\ ViewerInit
    /\ [][ViewerNext]_vars
    /\ WF_vars(refreshDeliveroo \/ refreshTargetCompanies \/ refreshEnd)


\* ------------------------------------------------------------------ specification of the lookups
\* var CONCURRENCY = 5
CONCURRENCY == 5

\* Mutant of the loop over the batches: i advances by CONCURRENCY, the slice
\* takes one company more.
BatchOneMore(companies, i) ==
    SubSeq(companies, i + 1,
           IF i + CONCURRENCY + 1 < Len(companies) THEN i + CONCURRENCY + 1
           ELSE Len(companies))

\* needAmbitionBox.slice(i, i + CONCURRENCY)
Batch(companies, i) ==
    SubSeq(companies, i + 1,
           IF i + CONCURRENCY < Len(companies) THEN i + CONCURRENCY ELSE Len(companies))

LkJob(id, department) ==
    NewJob(StringId(id), "Senior Backend Engineer", department, "2024-01-05")

\* Arguments jobs of filterBySalary: seven companies the curated table does not
\* cover, the first and the last with one slug; two names with one slug side by
\* side; six companies; curated companies, a job without department and a
\* department that occurs twice; no job.
LookupJobLists ==
    {<<LkJob("4901", "Acme Corp"), LkJob("4902", "Zed Labs"), LkJob("4903", "Quux"),
       LkJob("4904", "Nimbus"), LkJob("4905", "Orbit"), LkJob("4906", "Pylon"),
       LkJob("4907", "ACME Corp")>>,
     <<LkJob("4901", "Acme Corp"), LkJob("4907", "ACME Corp"), LkJob("4902", "Zed Labs")>>,
     <<LkJob("4903", "Quux"), LkJob("4904", "Nimbus"), LkJob("4905", "Orbit"),
       LkJob("4906", "Pylon"), LkJob("4902", "Zed Labs"), LkJob("4901", "Acme Corp")>>,
     <<LkJob("4908", "Agoda"), LkJob("4909", ""), LkJob("4901", "Acme Corp"),
       LkJob("4910", "Acme Corp"), LkJob("4911", "Visa")>>,
     <<>>}

\* What loadSalaryCache returned: nothing; an entry for acme-corp that is a day
\* old (60, or nothing found), a millisecond short of 14 days old (nothing
\* found, or 60), or exactly 14 days old; entries of 14 days for agoda and
\* zed-labs.
LookupCaches ==
    {<<>>,
     CachePut(<<>>, Slug["Acme Corp"], CacheEntry(60, FirstNow - DayMs)),
     CachePut(<<>>, Slug["Acme Corp"], CacheEntry(Null, FirstNow - DayMs)),
     CachePut(<<>>, Slug["Acme Corp"],
              CacheEntry(Null, FirstNow - SALARY_CACHE_TTL_DAYS * DayMs + 1)),
     CachePut(<<>>, Slug["Acme Corp"],
              CacheEntry(60, FirstNow - SALARY_CACHE_TTL_DAYS * DayMs + 1)),
     CachePut(<<>>, Slug["Acme Corp"],
              CacheEntry(60, FirstNow - SALARY_CACHE_TTL_DAYS * DayMs)),
     CachePut(CachePut(<<>>, Slug["Agoda"],
                       CacheEntry(30, FirstNow - SALARY_CACHE_TTL_DAYS * DayMs)),
              Slug["Zed Labs"],
              CacheEntry(60, FirstNow - SALARY_CACHE_TTL_DAYS * DayMs))}

\* What a request of this specification resolves to: a range, or nothing.
LookupResults == {[minLPA |-> 40, maxLPA |-> 60], [minLPA |-> Null, maxLPA |-> Null]}

\* The cache is loaded and the time is FirstNow: filterBySalary(lkJobs, lkCache0)
\* is about to start its batches, or getSalaryData is about to be called once.
LookupArgs ==
    /\ lkJobs \in LookupJobLists
    /\ lkCache0 \in LookupCaches
    /\ lkCache = lkCache0
    /\ lkNext = 0
    /\ inFlight = {}
    /\ requested = <<>>
    /\ stored = <<>>
    /\ lkSaved = <<>>
    /\ lkPassed = <<>>
    /\ lkPc = "start"
    /\ lkCompany = Undefined
    /\ lkFetched = <<>>

LookupRest ==
    <<mergeVars, filterVars, runVars, salaryVars, writeVars, joinVars, viewerVars,
      pagingVars, workerVars>>

\* The companies of a batch for which getSalaryData goes on to the request: it
\* runs up to its await for each company of the batch in turn, all on the cache
\* as it is when the batch starts.
ToRequest(batch, cache) ==
    LET Looks(c) == getSalaryData(c, cache, FirstNow, [minLPA |-> Null, maxLPA |-> Null]).looked
    IN  SelectSeqBy(batch, Looks)

\* Promise.all(batch.map(getSalaryData)): each call of the batch runs up to its
\* return or its request.
StartBatch ==
    /\ lkPc \in {"start", "loop"}
    /\ lkPc' = "loop"
    /\ inFlight = {}
    /\ lkNext < Len(needAmbitionBox(lkJobs))
    /\ lkNext' = lkNext + CONCURRENCY
    /\ requested' = requested \o
                    [i \in 1..Len(ToRequest(Batch(needAmbitionBox(lkJobs), lkNext), lkCache))
                       |-> Slug[ToRequest(Batch(needAmbitionBox(lkJobs), lkNext), lkCache)[i]]]
    /\ inFlight' = {ToRequest(Batch(needAmbitionBox(lkJobs), lkNext), lkCache)[i] :
                      i \in 1..Len(ToRequest(Batch(needAmbitionBox(lkJobs), lkNext), lkCache))}
    /\ UNCHANGED <<lkJobs, lkCache0, lkCache, stored, lkSaved, lkPassed, lkCompany, lkFetched,
                   LookupRest>>

\* stored with one more write for the slug.
CountWrite(counts, slug) ==
    [k \in DOMAIN counts \cup {slug} |->
       IF k = slug THEN (IF slug \in DOMAIN counts THEN counts[slug] + 1 ELSE 1)
       ELSE counts[k]]

\* The request for one company is answered: getSalaryData goes on after its
\* await and writes cache[slug], with the now it read before the request.
LookupSettles ==
    /\ lkPc = "loop"
    /\ \E c \in inFlight, fetched \in LookupResults :
          /\ lkCache' = StoreLookup(lkCache, Slug[c], FirstNow, fetched)
          /\ stored' = CountWrite(stored, Slug[c])
          /\ inFlight' = inFlight \ {c}
          /\ lkCompany' = c
          /\ lkFetched' = fetched
    /\ UNCHANGED <<lkJobs, lkCache0, lkNext, requested, lkSaved, lkPassed, lkPc, LookupRest>>

\* After the last batch: saveSalaryCache(salaryCache) and the second pass.
SaveAndFilter ==
    /\ lkPc \in {"start", "loop"}
    /\ inFlight = {}
    /\ lkNext >= Len(needAmbitionBox(lkJobs))
    /\ lkSaved' = lkCache
    /\ lkPassed' = PassedJobs(lkJobs, lkCache)
    /\ lkPc' = "done"
    /\ UNCHANGED <<lkJobs, lkCache0, lkCache, lkNext, inFlight, requested, stored, lkCompany,
                   lkFetched, LookupRest>>

\* One call of getSalaryData(company, cache) from its start to its return, the
\* request (if it makes one) answered with fetched.
GetSalaryDataCall ==
    /\ lkPc = "start"
    /\ \E company \in CompanyNames, fetched \in LookupResults :
          /\ lkCompany' = company
          /\ lkFetched' = fetched
          /\ lkCache' = getSalaryData(company, lkCache, FirstNow, fetched).cache
          /\ requested' = IF getSalaryData(company, lkCache, FirstNow, fetched).looked
                          THEN <<Slug[company]>> ELSE <<>>
    /\ lkPc' = "called"
    /\ UNCHANGED <<lkJobs, lkCache0, lkNext, inFlight, stored, lkSaved, lkPassed, LookupRest>>

LookupNext == GetSalaryDataCall \/ StartBatch \/ LookupSettles \/ SaveAndFilter

LookupInit ==
    /\ LookupArgs /\ MergeIdle /\ FilterIdle /\ RunIdle /\ SalaryIdle /\ WriteIdle
    /\ JoinIdle /\ ViewerIdle /\ PagingIdle /\ WorkerIdle

SpecLookup == LookupInit /\ [][LookupNext]_vars

\* ------------------------------------------------------------------ specification of the paging
\* The search queries of fetchLinkedInEasyApplyAll.
searches ==
    <<"Senior+Software+Engineer", "Senior+Backend+Engineer", "Senior+Platform+Engineer",
      "Staff+Software+Engineer", "Senior+Software+Developer">>

\* for (let start = 0; start < 100; start += 25) in fetchLinkedIn
LinkedInStartLimit == 100

\* for (let start = 0; start < 500; start += 25) in fetchLinkedInEasyApplyAll
EasyApplyStartLimit == 500

PageStep == 25

\* The jobs that pass the filters of the adapter, in the search results of the
\* model: they are numbered, and a page carries the first k of them.
MaxPageIds == 17

PageIds == 1..MaxPageIds

\* What a request for a page can return: httpGet rejects; a page without
\* base-search-card; a page with cards, of which those in ids pass the filters
\* (none of them, when ids is empty).
PageResponses ==
    {[kind |-> "failed", ids |-> {}], [kind |-> "nocards", ids |-> {}]}
      \cup {[kind |-> "page", ids |-> 1..k] : k \in 0..MaxPageIds}

\* Mutant of the test after a page of fetchLinkedInEasyApplyAll: the loop goes
\* on whatever the page added.
EasyApplyGoesOn(added, start) == FALSE

\* if (added === 0 && start >= 100) break;
EasyApplyStops(added, start) == added = 0 /\ start >= 100

\* A paging adapter is called.
PagingArgs ==
    /\ pgAdapter \in {"linkedin", "linkedin_easy_all"}
    /\ pgQuery = 1
    /\ pgStart = 0
    /\ pgSeen = {}
    /\ pgPages = 0
    /\ pgLast = "none"
    /\ pgLastAdded = 0
    /\ pgPc = "request"

PagingRest ==
    <<mergeVars, filterVars, runVars, salaryVars, writeVars, joinVars, viewerVars,
      lookupVars, workerVars>>

\* One turn of the loop of fetchLinkedIn: the request for the page at start and
\* what follows up to the next request or the return. The catch returns allJobs.
LinkedInPage ==
    /\ pgAdapter = "linkedin"
    /\ pgPc = "request"
    /\ pgPages' = pgPages + 1
    /\ \E page \in PageResponses :
          IF page.kind \in {"failed", "nocards"}
          THEN /\ pgLast' = page.kind
               /\ pgLastAdded' = 0
               /\ pgPc' = "done"
               /\ UNCHANGED <<pgStart, pgSeen>>
          ELSE /\ pgLast' = "page"
               /\ pgLastAdded' = Cardinality(page.ids \ pgSeen)
               /\ pgSeen' = pgSeen \cup page.ids
               /\ pgStart' = pgStart + PageStep
               /\ pgPc' = IF pgStart + PageStep < LinkedInStartLimit THEN "request"
                          ELSE "done"
    /\ UNCHANGED <<pgAdapter, pgQuery, PagingRest>>

\* One turn of the inner loop of fetchLinkedInEasyApplyAll: the request for the
\* page at start and what follows up to the next request or the end of the
\* query. The catch of the query logs the error.
EasyApplyPage ==
    /\ pgAdapter = "linkedin_easy_all"
    /\ pgPc = "request"
    /\ pgPages' = pgPages + 1
    /\ \E page \in PageResponses :
          IF page.kind \in {"failed", "nocards"}
          THEN /\ pgLast' = page.kind
               /\ pgLastAdded' = 0
               /\ pgPc' = "queryEnd"
               /\ UNCHANGED <<pgStart, pgSeen>>
          ELSE /\ pgLast' = "page"
               /\ pgLastAdded' = Cardinality(page.ids \ pgSeen)
               /\ pgSeen' = pgSeen \cup page.ids
               /\ IF EasyApplyStops(Cardinality(page.ids \ pgSeen), pgStart)
                  THEN pgStart' = pgStart /\ pgPc' = "queryEnd"
                  ELSE /\ pgStart' = pgStart + PageStep
                       /\ pgPc' = IF pgStart + PageStep < EasyApplyStartLimit
                                  THEN "request" ELSE "queryEnd"
    /\ UNCHANGED <<pgAdapter, pgQuery, PagingRest>>

\* After the pause that follows a query: the next query, or the sort and the
\* return after the last one.
NextQuery ==
    /\ pgPc = "queryEnd"
    /\ IF pgQuery < Len(searches)
       THEN /\ pgQuery' = pgQuery + 1
            /\ pgStart' = 0
            /\ pgPages' = 0
            /\ pgLast' = "none"
            /\ pgLastAdded' = 0
            /\ pgPc' = "request"
       ELSE /\ pgPc' = "done"
            /\ UNCHANGED <<pgQuery, pgStart, pgPages, pgLast, pgLastAdded>>
    /\ UNCHANGED <<pgAdapter, pgSeen, PagingRest>>

PagingNext == LinkedInPage \/ EasyApplyPage \/ NextQuery

PagingInit ==
    /\ PagingArgs /\ MergeIdle /\ FilterIdle /\ RunIdle /\ SalaryIdle /\ WriteIdle
    /\ JoinIdle /\ ViewerIdle /\ LookupIdle /\ WorkerIdle

\* Every request is answered or times out (httpGet destroys the request after
\* 30 seconds) and every pause ends, so the adapter goes on while it can.
SpecPaging == PagingInit /\ [][PagingNext]_vars /\ WF_vars(PagingNext)

\* ------------------------------------------------------------------ specification of the service worker
SHELL_CACHE == "shell-v3"

DATA_CACHE == "data-v3"

\* The pathnames of SHELL_ASSETS, resolved against the scope of the worker.
SHELL_ASSETS ==
    {"/", "/index.html", "/styles.css", "/app.js", "/manifest.json", "/icons/icon.svg"}

API_HOSTS == {"careers.deliveroo.co.uk"}

\* The requests for data/jobs.json that the page makes, which bounds Date.now().
MaxJobsJsonFetches == 2

\* The origin of the page.
Origin == "viewer.example"

\* Deliveroo.fetchJobs: the roles of the careers API (one fixed URL).
RolesUrl == Url("careers.deliveroo.co.uk", "/wp-json/wp/v2/roles", 0)

\* fetchTargetCompanyData: data/jobs.json?t=<Date.now()>
JobsJsonUrl(t) == Url(Origin, "/data/jobs.json", t)

\* What the page requests apart from that: a shell asset, and a file that is
\* not among the shell assets.
OtherUrls == {Url(Origin, "/app.js", 0), Url(Origin, "/icons/icon-192.png", 0)}

\* What the network does with a request: the fetch rejects, or it resolves to
\* a response, ok or not.
NetOutcomes ==
    {[kind |-> "rejects", status |-> 0, body |-> ""],
     [kind |-> "response", status |-> 200, body |-> "A"],
     [kind |-> "response", status |-> 200, body |-> "B"],
     [kind |-> "response", status |-> 404, body |-> "Not Found"]}

\* response.ok
Ok(status) == status >= 200 /\ status <= 299

\* cache.put(request, response): the entry of the URL, query included.
CacheWith(cache, url, response) ==
    [u \in DOMAIN cache \cup {url} |-> IF u = url THEN response ELSE cache[u]]

\* caches.match(request): the first cache, in the order of their creation, that
\* holds the URL (ignoreSearch is not set: the query is part of the key).
cachesMatch(shell, data, url) ==
    IF url \in DOMAIN shell THEN shell[url]
    ELSE IF url \in DOMAIN data THEN data[url]
    ELSE NoResponse

\* url.pathname.includes('data/jobs.json') || API_HOSTS.includes(url.hostname)
IsNetworkFirst(url) ==
    \/ Includes(Chars(url.pathname), Chars("data/jobs.json"))
    \/ url.hostname \in API_HOSTS

\* Mutant of networkFirst: every response of the network is put in the cache.
networkFirstPutAll(url, net, shell, data) ==
    IF net.kind = "response"
    THEN [response |-> Response(net.status, net.body),
          data |-> CacheWith(data, url, Response(net.status, net.body))]
    ELSE [response |-> IF cachesMatch(shell, data, url) # NoResponse
                       THEN cachesMatch(shell, data, url)
                       ELSE Response(200, "[]"),
          data |-> data]

\* networkFirst(request): the response, and DATA_CACHE as it is left.
networkFirst(url, net, shell, data) ==
    IF net.kind = "response"
    THEN [response |-> Response(net.status, net.body),
          data |-> IF Ok(net.status)
                   THEN CacheWith(data, url, Response(net.status, net.body))
                   ELSE data]
    ELSE [response |-> IF cachesMatch(shell, data, url) # NoResponse
                       THEN cachesMatch(shell, data, url)
                       ELSE Response(200, "[]"),
          data |-> data]

\* cacheFirst(request): the response, SHELL_CACHE as it is left, and whether
\* fetch was called.
cacheFirst(url, net, shell, data) ==
    IF cachesMatch(shell, data, url) # NoResponse
    THEN [response |-> cachesMatch(shell, data, url), shell |-> shell, fetched |-> FALSE]
    ELSE IF net.kind = "response"
    THEN [response |-> Response(net.status, net.body),
          shell |-> IF Ok(net.status)
                    THEN CacheWith(shell, url, Response(net.status, net.body))
                    ELSE shell,
          fetched |-> TRUE]
    ELSE [response |-> Response(503, "Offline"), shell |-> shell, fetched |-> TRUE]

\* The page has registered the worker; caches of an earlier version may exist.
WorkerArgs ==
    /\ wkPc = "none"
    /\ wkKeys \in {{}, {"shell-v2", "data-v2"}}
    /\ wkShell = <<>>
    /\ wkData = <<>>
    /\ wkClock = 0
    /\ wkLastOk = <<>>
    /\ wkRequest = NoUrl
    /\ wkNet = Untouched
    /\ wkResponse = NoResponse

WorkerRest ==
    <<mergeVars, filterVars, runVars, salaryVars, writeVars, joinVars, viewerVars,
      lookupVars, pagingVars>>

\* The install event: caches.open(SHELL_CACHE) and cache.addAll(SHELL_ASSETS),
\* which stores the six responses when each of them is ok and nothing
\* otherwise; the installation fails then and is tried again later.
Install ==
    /\ wkPc = "none"
    /\ wkKeys' = wkKeys \cup {SHELL_CACHE}
    /\ \E net \in NetOutcomes :
          IF net.kind = "response" /\ Ok(net.status)
          THEN /\ wkShell' = [u \in {Url(Origin, a, 0) : a \in SHELL_ASSETS} |->
                                Response(net.status, net.body)]
               /\ wkPc' = "installed"
          ELSE UNCHANGED <<wkShell, wkPc>>
    /\ UNCHANGED <<wkData, wkClock, wkLastOk, wkRequest, wkNet, wkResponse, WorkerRest>>

\* The activate event: the caches of other versions are deleted, and
\* clients.claim() makes the worker the controller of the page.
Activate ==
    /\ wkPc = "installed"
    /\ wkKeys' = wkKeys \cap {SHELL_CACHE, DATA_CACHE}
    /\ wkPc' = "active"
    /\ UNCHANGED <<wkShell, wkData, wkClock, wkLastOk, wkRequest, wkNet, wkResponse,
                   WorkerRest>>

\* The fetch event of a request for the roles or for data/jobs.json.
FetchNetworkFirst ==
    /\ wkPc = "active"
    /\ \E url \in {RolesUrl, JobsJsonUrl(wkClock + 1)}, net \in NetOutcomes :
          /\ IsNetworkFirst(url)
          /\ url.t > 0 => wkClock < MaxJobsJsonFetches
          /\ wkClock' = IF url.t > 0 THEN wkClock + 1 ELSE wkClock
          /\ wkRequest' = url
          /\ wkNet' = net
          /\ wkResponse' = networkFirst(url, net, wkShell, wkData).response
          /\ wkData' = networkFirst(url, net, wkShell, wkData).data
          /\ wkKeys' = IF net.kind = "response" /\ Ok(net.status)
                       THEN wkKeys \cup {DATA_CACHE} ELSE wkKeys
          /\ wkLastOk' = IF net.kind = "response" /\ Ok(net.status)
                         THEN CacheWith(wkLastOk, Url(url.hostname, url.pathname, 0),
                                        Response(net.status, net.body))
                         ELSE wkLastOk
    /\ UNCHANGED <<wkPc, wkShell, WorkerRest>>

\* The fetch event of any other request.
FetchCacheFirst ==
    /\ wkPc = "active"
    /\ \E url \in OtherUrls, net \in NetOutcomes :
          /\ ~IsNetworkFirst(url)
          /\ wkRequest' = url
          /\ wkNet' = IF cacheFirst(url, net, wkShell, wkData).fetched THEN net
                      ELSE Untouched
          /\ wkResponse' = cacheFirst(url, net, wkShell, wkData).response
          /\ wkShell' = cacheFirst(url, net, wkShell, wkData).shell
    /\ UNCHANGED <<wkPc, wkKeys, wkData, wkClock, wkLastOk, WorkerRest>>

WorkerNext == Install \/ Activate \/ FetchNetworkFirst \/ FetchCacheFirst

WorkerInit ==
    /\ WorkerArgs /\ MergeIdle /\ FilterIdle /\ RunIdle /\ SalaryIdle /\ WriteIdle
    /\ JoinIdle /\ ViewerIdle /\ LookupIdle /\ PagingIdle

SpecWorker == WorkerInit /\ [][WorkerNext]_vars

\* The scheduled runs of main, from an empty data directory.
Init == RunIdle /\ MergeIdle /\ FilterIdle /\ SalaryIdle /\ WriteIdle /\ JoinIdle /\ ViewerIdle /\ LookupIdle /\ PagingIdle /\ WorkerIdle

Next == main \/ ProcessExit \/ Tick

Spec == Init /\ [][Next]_vars

\* ------------------------------------------------------------------ claims on mergeJobs
Parses(job) == DateGetTime(job.postedDate) # NaN

\* Too old to retain at mergeNow: older than seven days, or unparseable.
Stale(job) ==
    ~(Parses(job) /\ DateGetTime(job.postedDate) >= mergeNow - 7 * DayMs)

FreshKeys == {freshJobs[j].id.text : j \in 1..Len(freshJobs)}

\* The last fresh job with the key k.
LastFresh(k) ==
    freshJobs[CHOOSE j \in 1..Len(freshJobs) :
                 /\ freshJobs[j].id.text = k
                 /\ \A l \in (j + 1)..Len(freshJobs) : freshJobs[l].id.text # k]

\* C1: mergeJobs(mergeJobs(previous, fresh), fresh) = mergeJobs(previous, fresh)
\* at the same current time: same records, same order.
C1_MergeIdempotent == mergePc = "remerged" => mergedAgain = merged

\* C2: the result of mergeJobs holds each id, read as a string, at most once.
C2_NoDuplicateIds ==
    mergePc # "start" =>
        \A i, j \in 1..Len(merged) : i # j => merged[i].id.text # merged[j].id.text

\* C2 witness: fresh repeats a key as the number 1 and the string "1", the
\* previous list holds it too, and the merge left one job.
C2_Witness ==
    /\ mergePc = "merged"
    /\ Len(freshJobs) = 2 /\ Len(existingJobs) = 1
    /\ freshJobs[1].id.text = freshJobs[2].id.text
    /\ freshJobs[1].id # freshJobs[2].id
    /\ existingJobs[1].id.text = freshJobs[1].id.text
    /\ ~Stale(existingJobs[1])
    /\ Len(merged) = 1

\* C3: an id present in previous and in fresh is in the result once, as the
\* fresh version in every field.
C3_FreshWins ==
    mergePc # "start" =>
        \A p \in 1..Len(existingJobs) :
            existingJobs[p].id.text \in FreshKeys =>
                /\ \E i \in 1..Len(merged) : merged[i].id.text = existingJobs[p].id.text
                /\ \A i \in 1..Len(merged) :
                      merged[i].id.text = existingJobs[p].id.text
                          => merged[i] = LastFresh(existingJobs[p].id.text)

\* C3 witness: a retained previous job whose id is in fresh with another title.
C3_Witness ==
    /\ mergePc = "merged"
    /\ Len(existingJobs) = 1
    /\ ~Stale(existingJobs[1])
    /\ existingJobs[1].id.text \in FreshKeys
    /\ LastFresh(existingJobs[1].id.text).title # existingJobs[1].title
    /\ LastFresh(existingJobs[1].id.text).postedDate = existingJobs[1].postedDate

\* C4: a stale previous job whose id is not in fresh is not in the result; one
\* that fresh lists is; so every stale job of the result has its id in fresh.
C4_WindowExclusion ==
    mergePc # "start" =>
        /\ \A p \in 1..Len(existingJobs) :
              (Stale(existingJobs[p]) /\ existingJobs[p].id.text \notin FreshKeys)
                  => \A i \in 1..Len(merged) : merged[i] # existingJobs[p]
        /\ \A p \in 1..Len(existingJobs) :
              (/\ Stale(existingJobs[p])
               /\ existingJobs[p].id.text \in FreshKeys
               /\ LastFresh(existingJobs[p].id.text) = existingJobs[p])
                  => \E i \in 1..Len(merged) : merged[i] = existingJobs[p]
        /\ \A i \in 1..Len(merged) :
              Stale(merged[i]) => merged[i].id.text \in FreshKeys

\* C4 witness: an unparseable previous job that fresh does not list, merged with
\* a fresh list that is not empty.
C4_Witness ==
    /\ mergePc = "merged"
    /\ Len(existingJobs) = 1
    /\ ~Parses(existingJobs[1])
    /\ existingJobs[1].id.text \notin FreshKeys
    /\ Len(merged) = 2

\* C6: of two neighbours of the result that both have parseable dates, the
\* first is not older than the second.
C6_DescendingOrder ==
    mergePc # "start" =>
        \A i \in 1..(Len(merged) - 1) :
            (Parses(merged[i]) /\ Parses(merged[i + 1]))
                => DateGetTime(merged[i].postedDate) >= DateGetTime(merged[i + 1].postedDate)

\* C6 witness: the inputs list an older job before a newer one, and the result
\* holds them the other way round.
C6_Witness ==
    /\ mergePc = "merged"
    /\ Len(freshJobs) = 2
    /\ freshJobs[1].postedDate = "2024-01-03"
    /\ freshJobs[2].postedDate = "2024-01-04"
    /\ Len(merged) = 3
    /\ merged[1].postedDate = "2024-01-04"
    /\ merged[3].postedDate = "2024-01-03"

\* C17: in the result of mergeJobs no job with an unparseable postedDate stands
\* before a job with a parseable one.
C17_UnparseableLast ==
    mergePc # "start" =>
        \A i, j \in 1..Len(merged) :
            (i < j /\ Parses(merged[j])) => Parses(merged[i])

\* The jobs of s whose postedDate is d, in the order of s.
WithDate(s, d) == SelectSeq(s, LAMBDA job : job.postedDate = d)

\* C18: jobs of the result with equal postedDate stand in an order that the ids
\* decide: merging the same fresh jobs listed the other way round gives the
\* jobs of each date in the same order.
C18_TieBreakById ==
    (/\ mergePc # "start"
     /\ \A i, j \in 1..Len(freshJobs) :
           i # j => freshJobs[i].id.text # freshJobs[j].id.text)
        => \A d \in MergeDates :
               Parses([postedDate |-> d])
                   => WithDate(mergeJobs(existingJobs, Reverse(freshJobs), mergeNow), d)
                          = WithDate(merged, d)

\* ------------------------------------------------------------------ claims on the runs
Elems(s) == {s[i] : i \in 1..Len(s)}

Keys(s) == {s[i].id.text : i \in 1..Len(s)}

\* Lower-cased and trimmed, for the titles of the model.
LowerTrimmed == [t \in JobTitles |-> Trim(ToLowerCase(Chars(t)))]

TitlesOf(s) == {LowerTrimmed[s[i].title] : i \in 1..Len(s)}

\* At the time now, the job is at most seven days old.
WithinSevenDays(job, now) ==
    Parses(job) /\ DateGetTime(job.postedDate) >= now - 7 * DayMs

\* C5: in a run, every record of the previous artifact that is at most seven
\* days old (seven days exactly included) and whose id the section's fresh list
\* does not carry is in the same section of the artifact the run writes,
\* unchanged; so it stays, run after run, until a run finds it older.
C5_RollingWindowRetention ==
    [][(clock' = clock /\ exitCode' = 0) =>
          \A s \in Sources : \A job \in Elems(artifact.companies[s]) :
              (/\ WithinSevenDays(job, clock)
               /\ job.id.text \notin
                    Keys(IF s = "linkedin_easy_all" THEN easyAllSalaryFiltered'
                         ELSE adapterJobs'[s]))
                 => job \in Elems(artifact'.companies[s])]_vars

\* C5 witness: the salesforce record of 2024-01-05 is in the artifact written
\* on 2024-01-12, seven days later, by a run whose salesforce fetch failed.
C5_Witness ==
    /\ pc = "exited"
    /\ clock = FirstNow + DayMs
    /\ artifact.fetchedAt = clock
    /\ upstream["salesforce"] = "failed"
    /\ \E job \in Elems(artifact.companies["salesforce"]) :
          job.postedDate = "2024-01-05"

FetchedCareersTitles ==
    UNION {TitlesOf(adapterJobs[s]) : s \in CareersSources}

\* C8: after a run, a job the Easy Apply adapter returned whose lower-cased,
\* trimmed title is that of a job returned for salesforce, booking or linkedin
\* in the same run is neither in easyAllDeduped nor in the list given to the
\* merge, whatever its id; every other job the adapter returned is in
\* easyAllDeduped.
C8_CrossSourceDedup ==
    pc = "exited" =>
        \A job \in Elems(adapterJobs["linkedin_easy_all"]) :
            IF LowerTrimmed[job.title] \in FetchedCareersTitles
            THEN /\ job \notin Elems(easyAllDeduped)
                 /\ job.id.text \notin Keys(easyAllSalaryFiltered)
            ELSE job \in Elems(easyAllDeduped)

\* C8 witness: an Easy Apply job with the title of a booking job in another
\* case and with another id was dropped, and one with another title was kept.
C8_Witness ==
    /\ pc = "exited"
    /\ \E job \in Elems(adapterJobs["linkedin_easy_all"]) :
          /\ \E b \in Elems(adapterJobs["booking"]) :
                /\ LowerTrimmed[b.title] = LowerTrimmed[job.title]
                /\ b.title # job.title
                /\ b.id.text # job.id.text
          /\ job \notin Elems(easyAllDeduped)
    /\ \E job \in Elems(adapterJobs["linkedin_easy_all"]) :
          job \in Elems(easyAllDeduped)

\* C9: in the artifact, no job of the linkedin_easy_all section has the
\* lower-cased, trimmed title of a job of the salesforce, booking or linkedin
\* section.
C9_NoSharedTitle ==
    artifact.exists =>
        TitlesOf(artifact.companies["linkedin_easy_all"])
          \cap UNION {TitlesOf(artifact.companies[s]) : s \in CareersSources} = {}

\* ------------------------------------------------------------------ claims on filterBySalary
\* The key of the fallback cache for a company the curated table does not cover.
UncuratedSlug(company) ==
    IF company = "Acme Corp"
    THEN <<"a", "c", "m", "e", "-", "c", "o", "r", "p">>
    ELSE <<"z", "e", "d", "-", "l", "a", "b", "s">>

\* What the company of the job resolves to after the lookups: the curated value,
\* or the value the fallback cache holds; Null when there is neither.
ResolvedLpa(job) ==
    CASE job.department = "Agoda" -> 59
      [] job.department = "CRED" -> 50
      [] job.department = "Visa" -> 40
      [] OTHER ->
           IF UncuratedSlug(job.department) \in DOMAIN savedCache
           THEN savedCache[UncuratedSlug(job.department)].maxLPA
           ELSE Null

ResolvedSource(job) ==
    IF job.department \in {"Agoda", "CRED", "Visa"} THEN "levels.fyi" ELSE "ambitionbox"

HasDepartment(job) == job.department # ""

\* C11: the jobs whose company is not in the curated table and for which the
\* fallback cache holds no value after the lookups are all in the result of
\* filterBySalary, in the order of the argument, as they came: no salaryRange,
\* no salarySource.
C11_FailOpen ==
    salaryPc = "done" =>
        LET NoData(job) == HasDepartment(job) /\ ResolvedLpa(job) = Null IN
        /\ SelectSeq(passed, NoData) = SelectSeq(salaryJobs, NoData)
        /\ \A i \in 1..Len(passed) :
              NoData(passed[i]) =>
                 passed[i].salaryRange = <<>> /\ passed[i].salarySource = Undefined

\* C11 witness: the lookup for Acme Corp found nothing and the one for Zed Labs
\* found a range; the Acme Corp job is in the result without salaryRange.
C11_Witness ==
    /\ salaryPc = "done"
    /\ Len(salaryJobs) = 3
    /\ salaryCache = <<>>
    /\ \E i \in 1..Len(passed) :
          /\ passed[i].department = "Acme Corp"
          /\ passed[i].salaryRange = <<>>
    /\ \E i \in 1..Len(salaryJobs) :
          /\ salaryJobs[i].department = "Zed Labs"
          /\ ResolvedLpa(salaryJobs[i]) # Null

\* C12: of the jobs whose company resolves to a value, filterBySalary returns
\* those with 50 LPA or more, in the order of the argument, each with
\* salaryRange set to the value followed by ' LPA' and salarySource set to
\* 'levels.fyi' or 'ambitionbox'; those below 50 are not returned.
C12_Threshold ==
    salaryPc = "done" =>
        LET HasData(job) == HasDepartment(job) /\ ResolvedLpa(job) # Null
            Enough(job) == HasData(job) /\ ResolvedLpa(job) >= 50
            kept == SelectSeq(salaryJobs, Enough)
        IN  SelectSeq(passed, HasData) =
              [i \in 1..Len(kept) |->
                 [kept[i] EXCEPT !.salaryRange = <<ResolvedLpa(kept[i]), " LPA">>,
                                 !.salarySource = ResolvedSource(kept[i])]]

\* C12 witness: a CRED job (50, curated) and an Acme Corp job (50, looked up)
\* are in the result, and a job of Visa (40) was in the argument.
C12_Witness ==
    /\ salaryPc = "done"
    /\ \E i \in 1..Len(passed) :
          /\ passed[i].department = "CRED"
          /\ passed[i].salaryRange = <<50, " LPA">>
          /\ passed[i].salarySource = "levels.fyi"
    /\ \E i \in 1..Len(passed) :
          /\ passed[i].department = "Acme Corp"
          /\ passed[i].salaryRange = <<50, " LPA">>
          /\ passed[i].salarySource = "ambitionbox"
    /\ \E i \in 1..Len(salaryJobs) : salaryJobs[i].department = "Visa"
    /\ \A i \in 1..Len(passed) : passed[i].department # "Visa"

\* ------------------------------------------------------------------ claims on the write
\* C13: at every instant of a run and after it, data/jobs.json is what it was
\* when the run started, or it holds the whole new document.
C13_ReaderSeesWhole ==
    writePc # "idle" =>
        \/ jobsFile = jobsFileBefore
        \/ jobsFile.exists /\ Parses7(jobsFile.text)
              /\ Deserialize(jobsFile.text) = output

\* C14: when an exception has escaped main, the exit code is not zero and
\* data/jobs.json is what it was when the run started.
C14_FatalKeepsPrevious ==
    (writePc = "exited" /\ writeExit = 1) => jobsFile = jobsFileBefore

\* ------------------------------------------------------------------ claims on matchesRoleFilter
\* C10: "Senior Software Engineer" is accepted for booking and linkedin; linkedin
\* rejects "Staff Software Engineer"; "Senior Member of Technical Staff" and
\* "SMTS" are accepted for salesforce and rejected for booking and linkedin; a
\* class the switch does not know rejects every title.
C10_RoleFilterPrecision ==
    filterPc = "done" =>
        /\ (filterTitle = "Senior Software Engineer"
              /\ filterCompany \in {"booking", "linkedin"}) => filterResult
        /\ (filterTitle = "Staff Software Engineer" /\ filterCompany = "linkedin")
              => ~filterResult
        /\ filterTitle \in {"Senior Member of Technical Staff", "SMTS"} =>
              /\ filterCompany = "salesforce" => filterResult
              /\ filterCompany \in {"booking", "linkedin"} => ~filterResult
        /\ filterCompany \notin {"salesforce", "booking", "linkedin"} => ~filterResult

\* C10 witness: the salesforce class has accepted the spelled-out SMTS title.
C10_Witness ==
    /\ filterPc = "done"
    /\ filterTitle = "Senior Member of Technical Staff"
    /\ filterCompany = "salesforce"
    /\ filterResult

\* ------------------------------------------------------------------ claims on the exclusions
\* The title, lower-cased, matches one of the five exclusion patterns of the
\* Easy Apply filter.
EasyApplyExcluded(title) ==
    LET t == ToLowerCase(Chars(title)) IN
    \/ RegexTest(ReEasyFrontend, t)
    \/ RegexTest(ReEasySecurity, t)
    \/ RegexTest(ReEasyMl, t)
    \/ RegexTest(ReEasyNonEngineering, t)
    \/ RegexTest(ReEasyHardware, t)

\* The title, lower-cased, matches the three inclusion patterns of the Easy
\* Apply filter.
EasyApplyIncluded(title) ==
    LET t == ToLowerCase(Chars(title)) IN
    RegexTest(ReEasySenior, t) /\ RegexTest(ReEasyBackend, t) /\ RegexTest(ReEasyEngineer, t)

\* C20: a title that matches an exclusion pattern, in any letter case, is
\* rejected by the linkedin role filter and by the Easy Apply filter, whether
\* or not it matches the inclusion patterns.
C20_ExclusionFirst ==
    /\ (/\ filterPc = "done"
        /\ filterCompany = "linkedin"
        /\ RegexTest(ReLinkedinExcluded, ToLowerCase(Chars(filterTitle))))
           => ~filterResult
    /\ (filterPc = "doneEasyApply" /\ EasyApplyExcluded(filterTitle)) => ~filterResult

\* C20 witness: the Easy Apply filter has rejected a title in mixed case that
\* names a front-end role and matches every inclusion pattern.
C20_Witness ==
    /\ filterPc = "doneEasyApply"
    /\ filterTitle = "SENIOR Software Engineer, Frontend"
    /\ EasyApplyExcluded(filterTitle)
    /\ EasyApplyIncluded(filterTitle)
    /\ ~filterResult

\* The linkedin filter has rejected a title that names Staff and holds
\* "Senior Software Engineer".
C20_LinkedinCase ==
    /\ filterPc = "done"
    /\ filterCompany = "linkedin"
    /\ filterTitle = "STAFF Senior Software Engineer"
    /\ RegexTest(ReLinkedinSenior, ToLowerCase(Chars(filterTitle)))
    /\ ~filterResult

\* ------------------------------------------------------------------ claims on the join
Unsettled == {s \in Sources : promise[s] \notin {"fulfilled", "rejected"}}

\* The join has let main go on, or has thrown.
PastJoin == joinPc \notin {"start", "awaiting"}

\* C19 as stated: while an adapter has not settled main has performed no stage
\* at all, the read of data/jobs.json included; and past the join, whatever
\* upstream failed, the join has not rejected and main holds what each of the
\* four adapters resolved to.
C19_SettleAllJoin ==
    /\ Unsettled # {} => touched = {}
    /\ PastJoin => (joinPc # "exited" /\ joinExit = 0 /\ joinValues = settled)

\* C19 amended: as C19, but for loadExistingJobs, which reads data/jobs.json
\* before the adapters are called.
C19_SettleAllJoinAfterRead ==
    /\ Unsettled # {} => touched \subseteq {"artifact read"}
    /\ PastJoin => (joinPc # "exited" /\ joinExit = 0 /\ joinValues = settled)

\* C19 witness: the salesforce feed failed, the other three upstreams answered,
\* and the run has written the jobs of the other three.
C19_Witness ==
    /\ joinPc = "written"
    /\ joinUpstream["salesforce"] = "failed"
    /\ \A s \in Sources \ {"salesforce"} : joinUpstream[s] = "ok"
    /\ \A s \in Sources \ {"salesforce"} : joinValues[s] # <<>>
    /\ joinArtifact.companies["booking"] # <<>>
    /\ joinArtifact.companies["linkedin"] # <<>>

\* ------------------------------------------------------------------ claims on the viewer
\* The sections this step renders from the answer of a fetch.
RenderedNow == renderedSections' \ renderedSections

\* Each card rendered by this step has the badge iff its id, as a string, is
\* not in the stored seen ids, which are those of the start of the refresh.
BadgeRule ==
    \A s \in RenderedNow :
        \A i \in 1..Len(list'[s]) :
            list'[s][i].badge <=> StringOf(list'[s][i].id) \notin storedSeen

\* The step ends a refresh, and the stored seen ids then hold what they held
\* and every id the refresh rendered from a fetch.
SeenIdsMerged ==
    (viewPc = "refreshing" /\ viewPc' = "idle")
        => (storedSeen \cup RenderedIds) \subseteq storedSeen'

\* The same, or the stored seen ids are left as they were (localStorage did
\* not take the write).
SeenIdsMergedOrKept ==
    (viewPc = "refreshing" /\ viewPc' = "idle")
        => \/ storedSeen' = storedSeen \cup RenderedIds
           \/ storedSeen' = storedSeen

SeenIdsNeverShrink == storedSeen \subseteq storedSeen'

\* No card rendered by this step has the badge for an id that a refresh that
\* has ended rendered from a fetch.
NotNewAgain ==
    \A s \in RenderedNow :
        \A i \in 1..Len(list'[s]) :
            list'[s][i].badge => StringOf(list'[s][i].id) \notin renderedEarlier

OfflineAnswer(b) == ~online /\ swActive /\ ~done[b] /\ done'[b]

CardIds(cards) == [i \in 1..Len(cards) |-> cards[i].id]

\* C16: when the request of a section is answered without network, the service
\* worker being active, a section that showed jobs still shows the same jobs.
C16_OfflineKeepsJobs ==
    [][\A s \in ViewSections :
          (/\ OfflineAnswer(IF s = "deliveroo" THEN "deliveroo" ELSE "target")
           /\ shown[s] = "jobs")
              => (shown'[s] = "jobs" /\ CardIds(list'[s]) = CardIds(list[s]))]_vars

\* The sections that a branch of the refresh fills.
BranchSections(b) == IF b = "deliveroo" THEN {"deliveroo"} ELSE Sources

RefreshEnds == viewPc = "refreshing" /\ viewPc' = "idle"

\* The refresh that ends leaves the stored cache entry of every section whose
\* fetch failed as it was, and stores no id but those of the sections that the
\* other fetch filled.
FailedSectionKept ==
    RefreshEnds =>
        \A b \in failed :
           /\ \A s \in BranchSections(b) : storedCache'[s] = storedCache[s]
           /\ (storedSeen' \ storedSeen) \subseteq
                 UNION {IdStrings(newCache[s].jobs) :
                          s \in renderedSections \ BranchSections(b)}

\* The refresh that ends has stored the result and the ids of every section
\* that a fetch that did not fail has filled.
OtherSectionStored ==
    RefreshEnds =>
        \A b \in {"deliveroo", "target"} \ failed :
           \A s \in BranchSections(b) \cap renderedSections :
              /\ storedCache'[s] = newCache[s]
              /\ IdStrings(newCache[s].jobs) \subseteq storedSeen'

\* C30: a refresh in which the fetch of a section fails leaves the cache entry
\* of that section as it was and stores none of its ids, and the result and
\* the ids of the section whose fetch succeeded are stored.
C30_FailedSectionUntouched ==
    [][FailedSectionKept /\ (failed # {} => OtherSectionStored)]_vars

C30_FailedPart == [][FailedSectionKept]_vars

C30_OtherPart == [][failed # {} => OtherSectionStored]_vars

\* C30, the branch that checks the status: data/jobs.json answered 404, the
\* roles request a list; the entries of the four sections are as they were and
\* the roles are stored.
C30_TargetFailed ==
    /\ viewPc = "refreshing"
    /\ failed = {"target"}
    /\ done["target"] /\ done["deliveroo"]
    /\ renderedSections = {"deliveroo"}
    /\ storedCache["salesforce"].has
    /\ newCache["salesforce"] = storedCache["salesforce"]

\* C26: the fetches of a refresh start only when no refresh is in progress,
\* and a refresh in progress changes nothing of what another one reads or
\* writes but by its own steps; every refresh that has started ends, with
\* isLoading false and the button enabled, whatever its fetches return.
C26_RefreshCompletes ==
    /\ [][viewClock' # viewClock => viewPc # "refreshing"]_vars
    /\ (viewPc = "refreshing") ~> (viewPc = "idle")

\* C26 witness: the second refresh of the page is in progress, both its
\* fetches have failed and it has not ended yet.
C26_Witness ==
    /\ viewPc = "refreshing"
    /\ viewClock = 2
    /\ failed = {"deliveroo", "target"}
    /\ done["deliveroo"] /\ done["target"]

\* ------------------------------------------------------------------ claims on the lookups
\* C21: a call of getSalaryData for a company of the curated table makes no
\* request and leaves the cache as it was; for any other company whose slug has
\* an entry younger than 14 days it does the same; otherwise it makes one
\* request and leaves under the slug the values found, with the timestamp now.
C21_ResolutionOrder ==
    lkPc = "called" =>
        LET slug == Slug[lkCompany]
            young == /\ slug \in DOMAIN lkCache0
                     /\ FirstNow - lkCache0[slug].ts < 14 * DayMs
        IN  IF LevelsFyi[lkCompany] # Null \/ young
            THEN requested = <<>> /\ lkCache = lkCache0
            ELSE /\ requested = <<slug>>
                 /\ DOMAIN lkCache = DOMAIN lkCache0 \cup {slug}
                 /\ \A k \in DOMAIN lkCache0 \ {slug} : lkCache[k] = lkCache0[k]
                 /\ lkCache[slug].minLPA = lkFetched.minLPA
                 /\ lkCache[slug].maxLPA = lkFetched.maxLPA
                 /\ lkCache[slug].ts = FirstNow

\* C21 witness: the entry of acme-corp is exactly 14 days old; the call for
\* Acme Corp made the request and wrote the entry anew.
C21_Witness ==
    /\ lkPc = "called"
    /\ lkCompany = "Acme Corp"
    /\ Slug["Acme Corp"] \in DOMAIN lkCache0
    /\ FirstNow - lkCache0[Slug["Acme Corp"]].ts = 14 * DayMs
    /\ requested = <<Slug["Acme Corp"]>>
    /\ lkCache[Slug["Acme Corp"]].ts = FirstNow

\* C21, the other cases: an entry a millisecond short of 14 days is returned
\* without a request, and so is the figure of a curated company whose slug has
\* an old entry.
C21_OtherCases ==
    /\ lkPc = "called"
    /\ requested = <<>>
    /\ \/ /\ lkCompany = "Acme Corp"
          /\ Slug["Acme Corp"] \in DOMAIN lkCache0
          /\ FirstNow - lkCache0[Slug["Acme Corp"]].ts = 14 * DayMs - 1
       \/ /\ lkCompany = "Agoda"
          /\ Slug["Agoda"] \in DOMAIN lkCache0

\* C22: at most 5 requests are unanswered at any time; a request is made only
\* when none is unanswered, so a batch starts after the batch before it has
\* settled; filterBySalary saves the cache when no request is unanswered and
\* the loop has gone past the last company.
C22_BoundedConcurrency ==
    [][/\ Cardinality(inFlight') <= 5
       /\ Len(requested') > Len(requested) => inFlight = {}
       /\ (lkPc' = "done" /\ lkPc # "done") =>
             /\ inFlight = {}
             /\ lkNext >= Len(needAmbitionBox(lkJobs))
             /\ lkSaved' = lkCache]_vars

\* C22 witness: seven companies are in the list; the five requests of the first
\* batch are answered and the second batch has started: Pylon is in flight
\* (ACME Corp found the entry that the first batch wrote for Acme Corp).
C22_Witness ==
    /\ Len(needAmbitionBox(lkJobs)) = 7
    /\ lkNext = 10
    /\ Len(requested) = 6
    /\ inFlight = {"Pylon"}
    /\ Cardinality(DOMAIN stored) = 5

\* C22, the full batch: five requests are in flight at once.
C22_FiveInFlight == Cardinality(inFlight) = 5 /\ lkNext = 5

\* C27: in one run of filterBySalary no slug is requested twice and no cache
\* entry is written twice.
C27_OncePerSlug ==
    lkPc \in {"loop", "done"} =>
        /\ \A i, j \in 1..Len(requested) : requested[i] = requested[j] => i = j
        /\ \A slug \in DOMAIN stored : stored[slug] <= 1

\* C27, two names with one slug in different batches: the second finds the
\* entry the first wrote, and one request is made for the slug.
C27_AcrossBatches ==
    /\ lkPc = "done"
    /\ Len(needAmbitionBox(lkJobs)) = 7
    /\ lkCache0 = <<>>
    /\ Len(requested) = 6
    /\ stored[Slug["ACME Corp"]] = 1

\* A cache entry that records that nothing was found, written less than 14 days
\* before FirstNow.
YoungNullEntry(cache, slug) ==
    /\ slug \in DOMAIN cache
    /\ cache[slug].maxLPA = Null
    /\ FirstNow - cache[slug].ts < 14 * DayMs

\* C28: a call of getSalaryData whose request found nothing leaves under the
\* slug an entry with null minLPA and maxLPA and the timestamp now, whatever
\* was there; no request is made for a slug whose entry records nothing found
\* and is younger than 14 days; and the jobs of a company whose entry holds no
\* value are in the result of filterBySalary as they came.
C28_NegativeCaching ==
    [][/\ (Len(requested') > Len(requested) \/ stored' # stored)
            /\ lkFetched' # <<>> /\ lkFetched'.maxLPA = Null
          => /\ Slug[lkCompany'] \in DOMAIN lkCache'
             /\ lkCache'[Slug[lkCompany']].minLPA = Null
             /\ lkCache'[Slug[lkCompany']].maxLPA = Null
             /\ lkCache'[Slug[lkCompany']].ts = FirstNow
       /\ \A i \in 1..Len(requested') :
             i > Len(requested) => ~YoungNullEntry(lkCache, requested'[i])
       /\ (lkPc' = "done" /\ lkPc # "done") =>
             \A i \in 1..Len(lkJobs) :
                (/\ lkJobs[i].department \notin {"", Undefined}
                 /\ LevelsFyi[lkJobs[i].department] = Null
                 /\ Slug[lkJobs[i].department] \in DOMAIN lkCache
                 /\ lkCache[Slug[lkJobs[i].department]].maxLPA = Null)
                => \E k \in 1..Len(lkPassed') : lkPassed'[k] = lkJobs[i]]_vars

\* C28 witness: the entry of zed-labs held 60 and was 14 days old; the request
\* found nothing, the entry now holds nulls with the timestamp now, and the
\* Zed Labs job is in the result without salaryRange.
C28_Witness ==
    /\ lkPc = "done"
    /\ Slug["Zed Labs"] \in DOMAIN lkCache0
    /\ lkCache0[Slug["Zed Labs"]].maxLPA = 60
    /\ lkSaved[Slug["Zed Labs"]].maxLPA = Null
    /\ lkSaved[Slug["Zed Labs"]].ts = FirstNow
    /\ \E k \in 1..Len(lkPassed) :
          lkPassed[k].department = "Zed Labs" /\ lkPassed[k].salaryRange = <<>>

\* C28, the days that follow: the entry of acme-corp records nothing found and
\* is a millisecond short of 14 days old; the run made no request for it and
\* the Acme Corp jobs are in the result.
C28_NoLookupWhileYoung ==
    /\ lkPc = "done"
    /\ YoungNullEntry(lkCache0, Slug["Acme Corp"])
    /\ FirstNow - lkCache0[Slug["Acme Corp"]].ts = 14 * DayMs - 1
    /\ \E i \in 1..Len(lkJobs) : lkJobs[i].department = "Acme Corp"
    /\ \A i \in 1..Len(requested) : requested[i] # Slug["Acme Corp"]
    /\ \E k \in 1..Len(lkPassed) :
          lkPassed[k].department = "Acme Corp" /\ lkPassed[k].salaryRange = <<>>

C29_AnnotatedAsAtlassian ==
    /\ lkPc = "done"
    /\ \E k \in 1..Len(lkPassed) :
          /\ lkPassed[k].department = ""
          /\ lkPassed[k].salaryRange = <<198, " LPA">>
          /\ lkPassed[k].salarySource = "levels.fyi"
          /\ requested = <<Slug["Acme Corp"]>>

\* ------------------------------------------------------------------ claims on the adapters
\* C24: every record that an adapter has emitted has a department and a
\* postedDate that parses to a timestamp: where the upstream record carries no
\* posted date, the time of the run stands in.
C24_PartialRecordFallback ==
    \A s \in Sources :
       \A i \in 1..Len(adapterJobs[s]) :
          /\ adapterJobs[s][i].department # Undefined
          /\ DateGetTime(adapterJobs[s][i].postedDate) # NaN

\* C24, the adapters that have the fallback: a LinkedIn card without datetime
\* is emitted with the time of the run as postedDate.
C24_LinkedInFallback ==
    /\ upstream["linkedin"] = "ok"
    /\ \E i \in 1..Len(adapterJobs["linkedin"]) :
          /\ adapterJobs["linkedin"][i].id = StringId("3801")
          /\ adapterJobs["linkedin"][i].postedDate = ToISOString(clock)

\* ------------------------------------------------------------------ claims on the paging
\* The pages a query can take at most: 4 in fetchLinkedIn, 20 in
\* fetchLinkedInEasyApplyAll.
PageCeiling == IF pgAdapter = "linkedin" THEN 4 ELSE 20

C23_EasyApplyCeiling ==
    pgAdapter = "linkedin_easy_all" /\ pgPages = 20 /\ pgPc = "queryEnd" /\ pgLastAdded > 0

\* C23, the ceiling of fetchLinkedIn: it has returned after 4 pages, of which
\* the last three yielded nothing new.
C23_LinkedInCeiling ==
    /\ pgAdapter = "linkedin" /\ pgPages = 4 /\ pgPc = "done"
    /\ pgLast = "page" /\ pgLastAdded = 0 /\ Cardinality(pgSeen) = 1

\* ------------------------------------------------------------------ claims on the service worker
\* The resource of a URL: the URL without its query.
Resource(url) == Url(url.hostname, url.pathname, 0)

\* A fetch event has just been answered.
Answered == wkRequest' # wkRequest \/ wkNet' # wkNet \/ wkResponse' # wkResponse

\* For a network-first request the worker responds with the response of the
\* network when there is one.
NetworkWins ==
    (IsNetworkFirst(wkRequest') /\ wkNet'.kind = "response")
        => wkResponse' = Response(wkNet'.status, wkNet'.body)

\* When the network fails, the worker responds with the last ok response that
\* the network gave for the resource, or with the body [] when there was none.
LastOkOrEmpty ==
    (IsNetworkFirst(wkRequest') /\ wkNet'.kind = "rejects")
        => wkResponse' = IF Resource(wkRequest') \in DOMAIN wkLastOk
                         THEN wkLastOk[Resource(wkRequest')]
                         ELSE Response(200, "[]")

\* For any other request, a cached response is the answer and the network is
\* not asked.
CachedWins ==
    (~IsNetworkFirst(wkRequest') /\ cachesMatch(wkShell, wkData, wkRequest') # NoResponse)
        => /\ wkResponse' = cachesMatch(wkShell, wkData, wkRequest')
           /\ wkNet' = Untouched

\* Every response in a cache is ok.
OnlyOkStored ==
    /\ \A u \in DOMAIN wkShell' : Ok(wkShell'[u].status)
    /\ \A u \in DOMAIN wkData' : Ok(wkData'[u].status)

\* C25: network-first requests get the response of the network when the fetch
\* succeeds and, when it fails, the last ok response of the resource or else
\* the body []; other requests get the cached response, when there is one,
\* without a fetch; the caches hold ok responses only.
C25_Strategies ==
    [][/\ Answered => (NetworkWins /\ LastOkOrEmpty /\ CachedWins)
       /\ OnlyOkStored]_vars

C25_WithoutFallback ==
    [][/\ Answered => (NetworkWins /\ CachedWins)
       /\ OnlyOkStored]_vars

\* C25, the roles: the network fails and the worker answers with the last ok
\* response of the roles URL.
C25_RolesFallback ==
    /\ wkRequest = RolesUrl
    /\ wkNet.kind = "rejects"
    /\ RolesUrl \in DOMAIN wkLastOk
    /\ wkResponse = wkLastOk[RolesUrl]
    /\ wkResponse.body = "B"

\* C25, data/jobs.json: the network fails on the second request, the first
\* having been answered with an ok response, and the worker answers [].
C25_JobsJsonFallbackLost ==
    /\ wkRequest = JobsJsonUrl(2)
    /\ wkNet.kind = "rejects"
    /\ JobsJsonUrl(1) \in DOMAIN wkData
    /\ wkResponse = Response(200, "[]")

====
